---------------------------- MODULE Spec2Model ----------------------------
(***************************************************************************)
(* Reconstruction engine of the OrCAD -> KiCad converter:                  *)
(*   - extractor.py      : DSU and parse_components_and_nets               *)
(*   - convert_log.py    : parse_log (line-by-line state machine), the     *)
(*                         geometry utilities (preprocess_segments,        *)
(*                         stitch_all_tolerant, poly_suspicious,           *)
(*                         angle_from_vec), build_symbol and main          *)
(*   - convert_dsn.py    : make_safe_name and the name scan of             *)
(*                         parse_capsym_log                                *)
(* Each component has its own specification over its own variables; the    *)
(* variables of the other components stay at their initial value.          *)
(***************************************************************************)
EXTENDS Integers, Sequences, FiniteSets, TLC

(***************************************************************************)
(* Bounds of the model.                                                    *)
(***************************************************************************)
MaxPins == 3

MaxWires == 2

(***************************************************************************)
(* extractor.py : inputs.  Coordinates are the integer pairs the XML       *)
(* carries (hotptX/hotptY, startX/startY, endX/endY).  The k-th            *)
(* PortInstScalar read has the identity PinIds[k]; its coordinate is free. *)
(* Wires run between the coordinates of WireCoords; pins may also sit at   *)
(* (5,5), which no wire touches.                                           *)
(***************************************************************************)
WireCoords == {<<0, 0>>, <<1, 1>>, <<2, 2>>}

Coords == WireCoords \cup {<<5, 5>>}

PinIds == << <<"refA", "1">>, <<"refB", "1">>, <<"refC", "1">>,
             <<"refA", "2">>, <<"refB", "2">> >>

VARIABLES
  phase,      \* position in parse_components_and_nets: "parts", "wires", "done"
  xmlPins,    \* the PortInstScalar records read so far, in document order
  xmlWires,   \* the WireScalar edges read so far
  pin_pts,    \* pin_pts: ordered dict (x,y) -> [(ref,pin)...], as a sequence
  dsu,        \* dsu.p: ordered dict, [keys: insertion order, p: parent map]
  nets_cl,    \* nets_cl: ordered dict root -> [(ref,pin)...], as a sequence
  nets        \* the returned list of nets

netVars == <<phase, xmlPins, xmlWires, pin_pts, dsu, nets_cl, nets>>

VARIABLES
  ellipse_sides,  \* parse_log's parameter
  parser,         \* parse_log's locals: pool, cur, seg_state, rect_state, ell_state
  ended,          \* the loop over the lines is over
  symbols,        \* the returned list
  wr,             \* writer: coordinate fields written in the open block
  wrBlocks,       \* writer: primitive headers written
  wrPins,         \* writer: pin headers written
  parserN,        \* parse_log's locals on the same log with lines inserted
  symbolsN,       \* the list returned for the log with lines inserted
  nInserted,      \* the number of lines inserted
  bracketInserted, \* a line starting with "[" was inserted
  midInserted,    \* a line was inserted between the coordinates of a primitive
  feed            \* a log given as a whole: its lines and the next one to read

noiseVars == <<parserN, symbolsN, nInserted, bracketInserted, midInserted>>

logVars ==
  <<ellipse_sides, parser, ended, symbols, wr, wrBlocks, wrPins, noiseVars, feed>>

VARIABLES
  args,       \* build_symbol's arguments: sym and the keyword arguments
  build,      \* build_symbol's locals and output
  cap,        \* parse_capsym_log's name scan
  hdr,        \* a run of parse_log over symbol headers, with the headers read
  pre,        \* a call of preprocess_segments and a second one on its result
  stitch,     \* stitch_all_tolerant's argument and locals
  susp        \* a call of poly_suspicious

buildVars == <<args, build>>

geoVars == <<cap, hdr, pre, stitch, susp>>

vars == <<netVars, logVars, buildVars, geoVars>>


(***************************************************************************)
(* class DSU                                                               *)
(***************************************************************************)
DSU_init == [keys |-> <<>>, p |-> <<>>]

\* self.p.setdefault(x, x)
DSU_setdefault(d, x) ==
  IF x \in DOMAIN d.p THEN d
  ELSE [keys |-> Append(d.keys, x), p |-> d.p @@ (x :> x)]

\* The root of x and the number of keys on the way, the parents left as they are.
RECURSIVE DSU_findNoCompress(_, _)
DSU_findNoCompress(p, x) ==
  IF p[x] = x
    THEN [p |-> p, r |-> x, depth |-> 1]
    ELSE LET sub == DSU_findNoCompress(p, p[x])
         IN  [p |-> p, r |-> sub.r, depth |-> sub.depth + 1]

\* A find that compresses the key it was called on and no other key.
DSU_findOnlyKey(p, x) ==
  IF p[x] = x
    THEN [p |-> p, r |-> x, depth |-> 1]
    ELSE LET sub == DSU_findNoCompress(p, p[x])
         IN  [p |-> [p EXCEPT ![x] = sub.r], r |-> sub.r, depth |-> sub.depth + 1]

\* The body of find once x is a key: p[x] = x if p[x] == x else find(p[x]);
\* return p[x].  depth counts the nested activations of find.
RECURSIVE DSU_findRec(_, _)
DSU_findRec(p, x) ==
  IF p[x] = x
    THEN [p |-> p, r |-> x, depth |-> 1]
    ELSE LET sub == DSU_findRec(p, p[x])
         IN  [p |-> [sub.p EXCEPT ![x] = sub.r], r |-> sub.r,
              depth |-> sub.depth + 1]

DSU_find(d, x) ==
  LET d1 == DSU_setdefault(d, x)
      f  == DSU_findRec(d1.p, x)
  IN  [d |-> [keys |-> d1.keys, p |-> f.p], r |-> f.r, depth |-> f.depth]

\* A union that re-parents b itself instead of the root of b.
DSU_unionNoRootOfB(d, a, b) ==
  LET d1 == DSU_setdefault(DSU_setdefault(d, a), b)
      fa == DSU_find(d1, a)
      fb == DSU_find(fa.d, b)
  IN  [keys |-> fb.d.keys, p |-> [fb.d.p EXCEPT ![b] = fa.r]]

DSU_union(d, a, b) ==
  LET d1 == DSU_setdefault(DSU_setdefault(d, a), b)
      fa == DSU_find(d1, a)
      fb == DSU_find(fa.d, b)
  IN  [keys |-> fb.d.keys, p |-> [fb.d.p EXCEPT ![fb.r] = fa.r]]

(***************************************************************************)
(* Ordered dicts of lists (pin_pts, nets_cl) as sequences of [k, v].       *)
(***************************************************************************)
OD_has(od, k) == \E i \in 1..Len(od) : od[i].k = k

OD_idx(od, k) == CHOOSE i \in 1..Len(od) : od[i].k = k

\* A defaultdict(list) whose d[k].extend(vs) replaces the list.
OD_overwrite(od, k, vs) ==
  IF OD_has(od, k)
    THEN [od EXCEPT ![OD_idx(od, k)].v = vs]
    ELSE Append(od, [k |-> k, v |-> vs])

\* A defaultdict(list) that puts a new key in front of the others.
OD_extendFront(od, k, vs) ==
  IF OD_has(od, k)
    THEN [od EXCEPT ![OD_idx(od, k)].v = @ \o vs]
    ELSE <<[k |-> k, v |-> vs]>> \o od

\* defaultdict(list): d[k].extend(vs); a new key goes last.
OD_extend(od, k, vs) ==
  IF OD_has(od, k)
    THEN [od EXCEPT ![OD_idx(od, k)].v = @ \o vs]
    ELSE Append(od, [k |-> k, v |-> vs])

\* pin_pts[(hx, hy)].append((ref, pin))
PinPtsAppendOverwrite(pp, pt, id) == OD_overwrite(pp, pt, <<id>>)

PinPtsAppend(pp, pt, id) == OD_extend(pp, pt, <<id>>)

\* nets_cl[root].extend(pins)
NetsClExtendFront(ncl, root, pins) == OD_extendFront(ncl, root, pins)

NetsClExtend(ncl, root, pins) == OD_extend(ncl, root, pins)

(***************************************************************************)
(* parse_components_and_nets, nets part (extractor.py 80-91).              *)
(***************************************************************************)
\* for pt, pins in pin_pts.items(): nets_cl[dsu.find(pt)].extend(pins)
RECURSIVE ClusterFrom(_, _, _, _)
ClusterFrom(pp, i, d, ncl) ==
  IF i > Len(pp) THEN [d |-> d, ncl |-> ncl]
  ELSE LET f == DSU_find(d, pp[i].k)
       IN  ClusterFrom(pp, i + 1, f.d, NetsClExtend(ncl, f.r, pp[i].v))

\* "%s/%s" % conns[0], taken from the last connection instead.
NetNameLast(conns) == conns[Len(conns)][1] \o "/" \o conns[Len(conns)][2]

\* "%s/%s" % conns[0]
NetName(conns) == conns[1][1] \o "/" \o conns[1][2]

\* for code, conns in enumerate(nets_cl.values(), 1): nets.append(dict(...))
MakeNets(ncl) ==
  [k \in 1..Len(ncl) |->
     [net_name |-> NetName(ncl[k].v), net_code |-> k,
      connections |-> ncl[k].v]]

NetInit ==
  /\ phase = "parts"
  /\ xmlPins = <<>>
  /\ xmlWires = {}
  /\ pin_pts = <<>>
  /\ dsu = DSU_init
  /\ nets_cl = <<>>
  /\ nets = <<>>

\* One iteration of "for port in pi.findall('PortInstScalar/Defn')".
ReadPin(pt) ==
  /\ phase = "parts"
  /\ Len(xmlPins) < MaxPins
  /\ LET id == PinIds[Len(xmlPins) + 1]
     IN  /\ xmlPins' = Append(xmlPins, [id |-> id, pt |-> pt])
         /\ pin_pts' = PinPtsAppend(pin_pts, pt, id)
  /\ UNCHANGED <<phase, xmlWires, dsu, nets_cl, nets, logVars, buildVars, geoVars>>

\* One iteration of "for w in root.findall('.//WireScalar/Defn')".
ReadWire(a, b) ==
  /\ phase \in {"parts", "wires"}
  /\ Cardinality(xmlWires) < MaxWires
  /\ <<a, b>> \notin xmlWires
  /\ phase' = "wires"
  /\ xmlWires' = xmlWires \cup {<<a, b>>}
  /\ dsu' = DSU_union(dsu, a, b)
  /\ UNCHANGED <<xmlPins, pin_pts, nets_cl, nets, logVars, buildVars, geoVars>>

\* The nets list and the return.
BuildNets ==
  /\ phase \in {"parts", "wires"}
  /\ phase' = "done"
  /\ LET c == ClusterFrom(pin_pts, 1, dsu, <<>>)
     IN  /\ dsu' = c.d
         /\ nets_cl' = c.ncl
         /\ nets' = MakeNets(c.ncl)
  /\ UNCHANGED <<xmlPins, xmlWires, pin_pts, logVars, buildVars, geoVars>>

NetNext ==
  \/ \E pt \in Coords : ReadPin(pt)
  \/ \E a \in WireCoords, b \in WireCoords : ReadWire(a, b)
  \/ BuildNets

(***************************************************************************)
(* Properties of parse_components_and_nets and DSU.                        *)
(***************************************************************************)
PinIdx == 1..Len(xmlPins)

Range(s) == {s[i] : i \in 1..Len(s)}

\* The coordinates linked to those of S by one wire, in either direction.
WireStep(S) ==
  S \cup {y \in Coords : \E x \in S : <<x, y>> \in xmlWires \/ <<y, x>> \in xmlWires}

\* The coordinates linked to those of S by a chain of wires.
RECURSIVE WireReach(_)
WireReach(S) == IF WireStep(S) = S THEN S ELSE WireReach(WireStep(S))

WireEnds == {w[1] : w \in xmlWires} \cup {w[2] : w \in xmlWires}

\* The nets whose connections hold pin record i.
NetsOfPin(i) == {k \in 1..Len(nets) : xmlPins[i].id \in Range(nets[k].connections)}

\* The first pin record, in input order, among the connections of net k.
FirstPin(k) ==
  CHOOSE i \in PinIdx :
    /\ xmlPins[i].id \in Range(nets[k].connections)
    /\ \A j \in PinIdx : xmlPins[j].id \in Range(nets[k].connections) => i <= j

\* The pin identities located at coordinate pt, in input order.
RECURSIVE PinsAtFrom(_, _)
PinsAtFrom(pt, i) ==
  IF i > Len(xmlPins) THEN <<>>
  ELSE (IF xmlPins[i].pt = pt THEN <<xmlPins[i].id>> ELSE <<>>) \o PinsAtFrom(pt, i + 1)

\* The number of parent links from x to its root.
RECURSIVE ChainLen(_, _)
ChainLen(p, x) == IF p[x] = x THEN 0 ELSE 1 + ChainLen(p, p[x])

\* The representatives that own a net, in the order their keys were created
\* in the forest.
RootsInCreationOrder ==
  SelectSeq(dsu.keys, LAMBDA x : dsu.p[x] = x /\ OD_has(nets_cl, x))

\* C1: two pin records are in the same net if and only if their coordinates
\* are equal or linked by a chain of wires sharing equal endpoints.
C1_SameNetIffWireConnected ==
  phase = "done" =>
    \A i \in PinIdx, j \in PinIdx :
      (NetsOfPin(i) \cap NetsOfPin(j) # {})
        <=> (xmlPins[j].pt \in WireReach({xmlPins[i].pt}))

\* Two pins at the two ends of a chain of two wires that no single wire
\* links share a net, and a third pin away from every wire has its own.
C1_Witness ==
  /\ phase = "done"
  /\ \E i \in PinIdx, j \in PinIdx, l \in PinIdx :
       /\ xmlPins[i].pt # xmlPins[j].pt
       /\ <<xmlPins[i].pt, xmlPins[j].pt>> \notin xmlWires
       /\ <<xmlPins[j].pt, xmlPins[i].pt>> \notin xmlWires
       /\ NetsOfPin(i) = NetsOfPin(j)
       /\ Cardinality(NetsOfPin(i)) = 1
       /\ xmlPins[l].pt \notin WireEnds
       /\ NetsOfPin(l) \cap NetsOfPin(i) = {}

\* C2 as stated: the net of a pin whose coordinate is no wire endpoint has a
\* connections list that contains only that pin.
C2_OffWirePinAlone ==
  phase = "done" =>
    \A i \in PinIdx :
      xmlPins[i].pt \notin WireEnds =>
        \A k \in NetsOfPin(i) : nets[k].connections = <<xmlPins[i].id>>

\* C2 amended: a pin whose coordinate is no wire endpoint is in exactly one
\* net, whose connections are exactly the pin records located at that same
\* coordinate, in input order (only that pin when no other pin is there).
C2_OffWirePinWithItsCoordinate ==
  phase = "done" =>
    \A i \in PinIdx :
      xmlPins[i].pt \notin WireEnds =>
        /\ Cardinality(NetsOfPin(i)) = 1
        /\ \A k \in NetsOfPin(i) :
             nets[k].connections = PinsAtFrom(xmlPins[i].pt, 1)

\* Wires exist, one pin is away from all of them and shares its coordinate
\* with another pin, a third pin sits on a wire.
C2_Witness ==
  /\ phase = "done"
  /\ xmlWires # {}
  /\ \E i \in PinIdx, j \in PinIdx, l \in PinIdx :
       /\ i # j
       /\ xmlPins[i].pt \notin WireEnds
       /\ xmlPins[j].pt = xmlPins[i].pt
       /\ xmlPins[l].pt \in WireEnds
       /\ NetsOfPin(i) # {}

\* C3 as stated: net code k belongs to the k-th representative created in
\* the disjoint-set forest.
C3_NetOrderIsForestCreationOrder ==
  phase = "done" =>
    \A k \in 1..Len(nets) :
      /\ k <= Len(RootsInCreationOrder)
      /\ nets_cl[k].k = RootsInCreationOrder[k]

\* C3 amended: the nets are emitted in the order in which their
\* representative was first inserted into the net-group map, which is the
\* input order of the earliest pin of each net; net code k belongs to the
\* k-th net in that order.
C3_NetOrderIsFirstPinOrder ==
  phase = "done" =>
    /\ Len(nets) = Len(nets_cl)
    /\ \A k \in 1..Len(nets) :
         /\ nets[k].net_code = k
         /\ nets[k].connections = nets_cl[k].v
         /\ \A l \in 1..Len(nets) : k < l => FirstPin(k) < FirstPin(l)

\* Two nets whose representatives were created in the forest in the order
\* opposite to the one the nets are emitted in.
C3_Witness ==
  /\ phase = "done"
  /\ Len(nets) >= 2
  /\ Len(RootsInCreationOrder) >= 2
  /\ nets_cl[1].k = RootsInCreationOrder[2]
  /\ nets_cl[2].k = RootsInCreationOrder[1]

\* C4: the net codes are exactly 1..N, and each net is named "ref/pin" after
\* its earliest pin record in input order.
C4_CodesAndNames ==
  phase = "done" =>
    /\ {nets[k].net_code : k \in 1..Len(nets)} = 1..Len(nets)
    /\ \A k \in 1..Len(nets) :
         /\ nets[k].net_code = k
         /\ nets[k].net_name =
              xmlPins[FirstPin(k)].id[1] \o "/" \o xmlPins[FirstPin(k)].id[2]

\* Two nets, one of which groups pins of two coordinates joined by a wire.
C4_Witness ==
  /\ phase = "done"
  /\ Len(nets) = 2
  /\ \E k \in 1..Len(nets) :
       /\ Len(nets[k].connections) >= 2
       /\ \E i \in PinIdx, j \in PinIdx :
            /\ xmlPins[i].pt # xmlPins[j].pt
            /\ k \in NetsOfPin(i) \cap NetsOfPin(j)

\* C5: the depth of nested find calls needed to answer find(x) does not
\* grow with the length of the parent chain from x to its root.
C5_FindDepthIndependentOfChain ==
  \A x \in DOMAIN dsu.p, y \in DOMAIN dsu.p :
    ChainLen(dsu.p, x) < ChainLen(dsu.p, y) =>
      DSU_find(dsu, y).depth <= DSU_find(dsu, x).depth

(***************************************************************************)
(* convert_log.py : log lines.  A line is the sequence of the pieces of    *)
(* its text; "pattern in ln" is the search of the pattern's pieces as a    *)
(* contiguous run of the line's pieces, ln.startswith(pattern) their match *)
(* at the start of the line.                                               *)
(***************************************************************************)
Contains(ln, pat) ==
  \E i \in 0..(Len(ln) - Len(pat)) : \A j \in 1..Len(pat) : ln[i + j] = pat[j]

StartsWith(ln, pat) ==
  /\ Len(pat) <= Len(ln)
  /\ \A j \in 1..Len(pat) : ln[j] = pat[j]

\* The texts the parsers look for.
PAT_PIN     == <<"OOCP::", "StructSymbolPin">>
PAT_LINE    == <<"OOCP::", "PrimLine">>
PAT_RECT    == <<"OOCP::", "PrimRect">>
PAT_ELLIPSE == <<"OOCP::", "PrimEllipse">>
PAT_ENDRECT == <<"Ending", " ", "OOCP::", "PrimRect", "::read">>
PAT_ENDELL  == <<"Ending", " ", "OOCP::", "PrimEllipse", "::read">>
PAT_BRACKET == <<"[">>
PAT_DEBUG0X == <<"[", "debug", "]", " ", "0x">>
PAT_PARTVALUE    == <<"partValue">>
PAT_PCBFOOTPRINT == <<"pcbFootprint">>

\* int() of the decimal texts the logs of the model carry.
IntOf == ("0" :> 0) @@ ("5" :> 5) @@ ("10" :> 10)

CoordKeys == {"x1", "y1", "x2", "y2"}

PinKeys == {"name", "startX", "startY", "hotptX", "hotptY",
            "isLeftPointing", "isRightPointing", "isClock",
            "isUpPointing", "isDownPointing"}

SymbolNames == {"GND", "VCC"}

\* re.search(r'\bnormalName\s*=\s*([A-Za-z0-9_.-]+)', ln): the position of
\* the match, 0 when there is none.
NormalNameAt(ln) ==
  LET hits == {i \in 1..(Len(ln) - 2) :
                 ln[i] = "normalName" /\ ln[i + 1] = " = " /\ ln[i + 2] \in SymbolNames}
  IN  IF hits = {} THEN 0 ELSE CHOOSE i \in hits : \A j \in hits : i <= j

\* re.match(r'\s*(\w+)\s*=\s*(.+)', ln) with group(1) among the pin keys.
MatchPinAttr(ln) ==
  Len(ln) = 3 /\ ln[1] \in PinKeys /\ ln[2] = " = "

\* re.match(r'\s*(x1|y1|x2|y2)\s*=\s*(-?\d+)', ln)
MatchCoord(ln) ==
  Len(ln) = 3 /\ ln[1] \in CoordKeys /\ ln[2] = " = " /\ ln[3] \in DOMAIN IntOf

\* re.search(r'partValue\s*=\s*(.+)', ln), re.search(r'pcbFootprint\s*=\s*(.+)', ln)
MatchProp(ln, key) ==
  Len(ln) = 3 /\ ln[1] = key /\ ln[2] = " = "

(***************************************************************************)
(* Values.  None is the empty sequence and a present value v is <<v>>.  A  *)
(* coordinate of a segment is <<v>> for the integer v, and                 *)
(* <<c2, r2, i, n, f>> for the float (c2 + r2 * f(2*pi*i/n)) / 2 of an     *)
(* ellipse point, f = 0 for cos and 1 for sin.                             *)
(***************************************************************************)
None == <<>>

Some(v) == <<v>>

NewPrim == [x1 |-> None, y1 |-> None, x2 |-> None, y2 |-> None]

\* all(d.get(k) is not None for k in ('x1','y1','x2','y2'))
AllSet(d) == d.x1 # None /\ d.y1 # None /\ d.x2 # None /\ d.y2 # None

\* The assignment with x2 and y2 exchanged.
SetKeyExchanged(d, key, v) ==
  CASE key = "x1" -> [d EXCEPT !.x1 = Some(v)]
    [] key = "y1" -> [d EXCEPT !.y1 = Some(v)]
    [] key = "x2" -> [d EXCEPT !.y2 = Some(v)]
    [] key = "y2" -> [d EXCEPT !.x2 = Some(v)]

\* d[key] = v
SetKey(d, key, v) ==
  CASE key = "x1" -> [d EXCEPT !.x1 = Some(v)]
    [] key = "y1" -> [d EXCEPT !.y1 = Some(v)]
    [] key = "x2" -> [d EXCEPT !.x2 = Some(v)]
    [] key = "y2" -> [d EXCEPT !.y2 = Some(v)]

Num(v) == <<v>>

Abs(v) == IF v < 0 THEN -v ELSE v

\* (cx + rx * cos(t), cy + ry * sin(t)) with t = 2*pi*i/n
EllipsePoint(x1, y1, x2, y2, i, n) ==
  << <<x1 + x2, Abs(x2 - x1), i, n, 0>>, <<y1 + y2, Abs(y2 - y1), i, n, 1>> >>

NewSymbol(name) == [name |-> name, pins |-> <<>>, segments |-> <<>>, props |-> <<>>]

\* pool, cur = OrderedDict(), None; seg_state = rect_state = ell_state = None
\* cur is the position in pool of the current symbol, 0 for None.
LogStart ==
  [pool |-> <<>>, cur |-> 0, seg_state |-> None, rect_state |-> None,
   ell_state |-> None]

PoolIdx(pool, name) ==
  IF \E i \in 1..Len(pool) : pool[i].name = name
    THEN CHOOSE i \in 1..Len(pool) : pool[i].name = name
    ELSE 0

\* cur['segments'].extend(segs)
AddSegments(st, segs) ==
  [st EXCEPT !.pool[st.cur].segments = @ \o segs]

\* The four edges of the rectangle.
RectEdges(x1, y1, x2, y2) ==
  << <<Num(x1), Num(y1), Num(x2), Num(y1)>>,
     <<Num(x2), Num(y1), Num(x2), Num(y2)>>,
     <<Num(x2), Num(y2), Num(x1), Num(y2)>>,
     <<Num(x1), Num(y2), Num(x1), Num(y1)>> >>

\* parse_log.flush_rect
flush_rect(st) ==
  LET r == st.rect_state
      st1 == IF r # None /\ AllSet(r[1])
               THEN AddSegments(st, RectEdges(r[1].x1[1], r[1].y1[1], r[1].x2[1], r[1].y2[1]))
               ELSE st
  IN  [st1 EXCEPT !.rect_state = None]

\* The ring of n chords: zip(pts, pts[1:] + [pts[0]])
EllipseRing(x1, y1, x2, y2, n) ==
  [k \in 1..n |->
     LET a == EllipsePoint(x1, y1, x2, y2, k - 1, n)
         b == EllipsePoint(x1, y1, x2, y2, k % n, n)
     IN  <<a[1], a[2], b[1], b[2]>>]

\* parse_log.flush_ellipse; rx > 0 is abs(x2 - x1) / 2.0 > 0.
flush_ellipse(st, sides) ==
  LET e == st.ell_state
      st1 == IF e # None /\ AllSet(e[1])
               THEN LET x1 == e[1].x1[1]
                        y1 == e[1].y1[1]
                        x2 == e[1].x2[1]
                        y2 == e[1].y2[1]
                    IN  IF Abs(x2 - x1) > 0 /\ Abs(y2 - y1) > 0 /\ sides >= 8
                          THEN AddSegments(st, EllipseRing(x1, y1, x2, y2, sides))
                          ELSE st
               ELSE st
  IN  [st1 EXCEPT !.ell_state = None]

\* cur['pins'][-1][key] = value, when the symbol has a pin and the line is
\* a pin attribute (convert_log.py 223-231)
PinAttr(st, ln) ==
  LET pins == st.pool[st.cur].pins
  IN  IF pins # <<>> /\ MatchPinAttr(ln)
        THEN [st EXCEPT !.pool[st.cur].pins[Len(pins)] = (ln[1] :> ln[3]) @@ @]
        ELSE st

\* A line collector that gives up the line on every line that is no
\* coordinate.
CollectLineStrict(st, ln) ==
  IF st.seg_state = None THEN st
  ELSE IF MatchCoord(ln)
    THEN LET d == SetKey(st.seg_state[1], ln[1], IntOf[ln[3]])
         IN  IF AllSet(d)
               THEN [AddSegments(st, << <<Num(d.x1[1]), Num(d.y1[1]), Num(d.x2[1]), Num(d.y2[1])>> >>)
                       EXCEPT !.seg_state = None]
               ELSE [st EXCEPT !.seg_state = Some(d)]
  ELSE [st EXCEPT !.seg_state = None]

\* A line collector that keeps the line in progress after its flush.
CollectLineKeep(st, ln) ==
  IF st.seg_state = None THEN st
  ELSE IF MatchCoord(ln)
    THEN LET d == SetKey(st.seg_state[1], ln[1], IntOf[ln[3]])
         IN  IF AllSet(d)
               THEN [AddSegments(st, << <<Num(d.x1[1]), Num(d.y1[1]), Num(d.x2[1]), Num(d.y2[1])>> >>)
                       EXCEPT !.seg_state = Some(d)]
               ELSE [st EXCEPT !.seg_state = Some(d)]
  ELSE IF StartsWith(ln, PAT_BRACKET)
    THEN [st EXCEPT !.seg_state = None]
  ELSE st

\* collect PrimLine coords (convert_log.py 247-259)
CollectLine(st, ln) ==
  IF st.seg_state = None THEN st
  ELSE IF MatchCoord(ln)
    THEN LET d == SetKey(st.seg_state[1], ln[1], IntOf[ln[3]])
         IN  IF AllSet(d)
               THEN [AddSegments(st, << <<Num(d.x1[1]), Num(d.y1[1]), Num(d.x2[1]), Num(d.y2[1])>> >>)
                       EXCEPT !.seg_state = None]
               ELSE [st EXCEPT !.seg_state = Some(d)]
  ELSE IF StartsWith(ln, PAT_BRACKET)
    THEN [st EXCEPT !.seg_state = None]
  ELSE st

\* collect PrimRect coords (convert_log.py 261-267)
CollectRect(st, ln) ==
  IF st.rect_state = None THEN st
  ELSE IF MatchCoord(ln)
    THEN [st EXCEPT !.rect_state = Some(SetKey(st.rect_state[1], ln[1], IntOf[ln[3]]))]
  ELSE IF Contains(ln, PAT_ENDRECT) \/ StartsWith(ln, PAT_DEBUG0X)
    THEN flush_rect(st)
  ELSE st

\* collect PrimEllipse coords (convert_log.py 269-275)
CollectEllipse(st, ln, sides) ==
  IF st.ell_state = None THEN st
  ELSE IF MatchCoord(ln)
    THEN [st EXCEPT !.ell_state = Some(SetKey(st.ell_state[1], ln[1], IntOf[ln[3]]))]
  ELSE IF Contains(ln, PAT_ENDELL) \/ StartsWith(ln, PAT_DEBUG0X)
    THEN flush_ellipse(st, sides)
  ELSE st

\* properties (convert_log.py 277-285)
CollectProps(st, ln) ==
  LET st1 == IF Contains(ln, PAT_PARTVALUE) /\ MatchProp(ln, "partValue")
               THEN [st EXCEPT !.pool[st.cur].props = ("PartValue" :> ln[3]) @@ @]
               ELSE st
  IN  IF Contains(ln, PAT_PCBFOOTPRINT) /\ MatchProp(ln, "pcbFootprint")
        THEN [st1 EXCEPT !.pool[st.cur].props = ("Footprint" :> ln[3]) @@ @]
        ELSE st1

\* The body of "for ln in lines" of parse_log (convert_log.py 204-285).
LogStep(st, ln, sides) ==
  IF NormalNameAt(ln) # 0
    THEN LET name == ln[NormalNameAt(ln) + 2]
             pool1 == IF PoolIdx(st.pool, name) = 0
                        THEN Append(st.pool, NewSymbol(name))
                        ELSE st.pool
         IN  [pool |-> pool1, cur |-> PoolIdx(pool1, name), seg_state |-> None,
              rect_state |-> None, ell_state |-> None]
  ELSE IF st.cur = 0 THEN st
  ELSE IF Contains(ln, PAT_PIN)
    THEN [st EXCEPT !.pool[st.cur].pins = Append(@, <<>>),
                    !.seg_state = None, !.rect_state = None, !.ell_state = None]
  ELSE LET st1 == PinAttr(st, ln)
       IN  IF Contains(ln, PAT_LINE)
             THEN [st1 EXCEPT !.seg_state = Some(NewPrim), !.rect_state = None,
                              !.ell_state = None]
           ELSE IF Contains(ln, PAT_RECT)
             THEN [st1 EXCEPT !.rect_state = Some(NewPrim), !.seg_state = None,
                              !.ell_state = None]
           ELSE IF Contains(ln, PAT_ELLIPSE)
             THEN [st1 EXCEPT !.ell_state = Some(NewPrim), !.seg_state = None,
                              !.rect_state = None]
           ELSE CollectProps(
                  CollectEllipse(CollectRect(CollectLine(st1, ln), ln), ln, sides),
                  ln)

\* dedup(seq, key): the first element of each key, in order; keys[i] is
\* key(seq[i]).
RECURSIVE DedupFrom(_, _, _, _)
DedupFrom(seq, keys, i, seen) ==
  IF i > Len(seq) THEN <<>>
  ELSE IF keys[i] \in seen
    THEN DedupFrom(seq, keys, i + 1, seen)
    ELSE <<seq[i]>> \o DedupFrom(seq, keys, i + 1, seen \cup {keys[i]})

dedup(seq, keys) == DedupFrom(seq, keys, 1, {})

\* p.get(k), and p.get(k, default)
Get(p, k) == IF k \in DOMAIN p THEN Some(p[k]) ELSE None

GetOr(p, k, default) == IF k \in DOMAIN p THEN Some(p[k]) ELSE default

\* The key of the pins' dedup (convert_log.py 293-297)
PinKey(p) ==
  <<Get(p, "startX"), Get(p, "startY"),
    GetOr(p, "hotptX", Get(p, "startX")), GetOr(p, "hotptY", Get(p, "startY"))>>

\* build list (convert_log.py 287-300); the key of a segment is tuple(s).
LogFinish(st) ==
  [i \in 1..Len(st.pool) |->
     [st.pool[i] EXCEPT
        !.segments = dedup(@, @),
        !.pins = dedup(@, [j \in 1..Len(@) |-> PinKey(@[j])])]]

(***************************************************************************)
(* The log fed to parse_log.  Its writer emits the coordinate fields of a  *)
(* primitive block in the order x1, y1, x2, y2 (wr is the number written   *)
(* since the last primitive header, 4 when none is due); any other line    *)
(* may come between them.                                                  *)
(***************************************************************************)
MaxBlocks == 2

MaxPinHeaders == 1

DefaultEllipseSides == 36

MinEllipseSides == 8

SidesChoices == {MinEllipseSides - 4, MinEllipseSides, DefaultEllipseSides}

PrimKinds == {"PrimLine", "PrimRect", "PrimEllipse"}

CoordOrder == <<"x1", "y1", "x2", "y2">>

CoordTexts == <<{"0"}, {"0"}, {"0", "10"}, {"5"}>>

PinFields == {<<"startX", "0">>}

SymbolLine(name) == <<"normalName", " = ", name>>

PinHeaderLine == <<"OOCP::", "StructSymbolPin">>

PrimHeaderLine(kind) == <<"OOCP::", kind>>

FieldLine(key, txt) == <<key, " = ", txt>>

EndMarkerLine(kind) == <<"Ending", " ", "OOCP::", kind, "::read">>

DebugLine == <<"[", "debug", "]", " ", "0x", "0000012a: next block">>

InfoLine == <<"[", "info", "]", " ", "structure read">>

PlainLine == <<"-- unrecognized text --">>

\* No log is given as a whole: the lines come one by one.
FeedIdle == [lines |-> <<>>, i |-> 1]

\* parse_log before its first line.
LogLocalsInit ==
  /\ parser = LogStart
  /\ ended = FALSE
  /\ symbols = <<>>
  /\ wr = 4
  /\ wrBlocks = 0
  /\ wrPins = 0
  /\ parserN = LogStart
  /\ symbolsN = <<>>
  /\ nInserted = 0
  /\ bracketInserted = FALSE
  /\ midInserted = FALSE

LogInit ==
  /\ ellipse_sides \in SidesChoices
  /\ LogLocalsInit
  /\ feed = FeedIdle

\* parse_log reads line ln of the log (in both runs).
Read(ln) ==
  /\ ~ended
  /\ parser' = LogStep(parser, ln, ellipse_sides)
  /\ parserN' = LogStep(parserN, ln, ellipse_sides)
  /\ UNCHANGED <<ellipse_sides, ended, symbols, netVars, buildVars, geoVars>>
  /\ UNCHANGED <<symbolsN, nInserted, bracketInserted, midInserted, feed>>

ReadSymbol(name) ==
  /\ Read(SymbolLine(name))
  /\ wr' = 4
  /\ UNCHANGED <<wrBlocks, wrPins>>

ReadPinHeader ==
  /\ wrPins < MaxPinHeaders
  /\ Read(PinHeaderLine)
  /\ wr' = 4
  /\ wrPins' = wrPins + 1
  /\ UNCHANGED wrBlocks

ReadPinField(f) ==
  /\ Read(FieldLine(f[1], f[2]))
  /\ UNCHANGED <<wr, wrBlocks, wrPins>>

ReadPrimHeader(kind) ==
  /\ wrBlocks < MaxBlocks
  /\ Read(PrimHeaderLine(kind))
  /\ wr' = 0
  /\ wrBlocks' = wrBlocks + 1
  /\ UNCHANGED wrPins

ReadCoord(txt) ==
  /\ wr < 4
  /\ txt \in CoordTexts[wr + 1]
  /\ Read(FieldLine(CoordOrder[wr + 1], txt))
  /\ wr' = wr + 1
  /\ UNCHANGED <<wrBlocks, wrPins>>

ReadEndMarker(kind) ==
  /\ Read(EndMarkerLine(kind))
  /\ UNCHANGED <<wr, wrBlocks, wrPins>>

ReadDebug ==
  /\ Read(DebugLine)
  /\ UNCHANGED <<wr, wrBlocks, wrPins>>

ReadInfo ==
  /\ Read(InfoLine)
  /\ UNCHANGED <<wr, wrBlocks, wrPins>>

ReadPlain ==
  /\ Read(PlainLine)
  /\ UNCHANGED <<wr, wrBlocks, wrPins>>

\* The lines are exhausted: build list and return (in both runs).
EndOfLog ==
  /\ ~ended
  /\ ended' = TRUE
  /\ symbols' = LogFinish(parser)
  /\ symbolsN' = LogFinish(parserN)
  /\ UNCHANGED <<ellipse_sides, parser, wr, wrBlocks, wrPins, netVars, buildVars, geoVars>>
  /\ UNCHANGED <<parserN, nInserted, bracketInserted, midInserted, feed>>

LogNext ==
  \/ ReadDebug
  \/ \E kind \in {"PrimRect", "PrimEllipse"} : ReadEndMarker(kind)
  \/ \E name \in SymbolNames : ReadSymbol(name)
  \/ ReadPinHeader
  \/ \E f \in PinFields : ReadPinField(f)
  \/ \E kind \in PrimKinds : ReadPrimHeader(kind)
  \/ \E txt \in DOMAIN IntOf : ReadCoord(txt)
  \/ ReadInfo
  \/ ReadPlain
  \/ EndOfLog

(***************************************************************************)
(* The same log with lines inserted: parserN reads every line of the log   *)
(* and, between them, inserted lines that parser does not read.            *)
(***************************************************************************)
MaxInserted == 2

MaxNoiseBlocks == 1

\* Some but not all coordinates of the primitive in progress are read.
PartlyRead(s) ==
  \E prim \in {s.seg_state, s.rect_state, s.ell_state} :
    /\ prim # None
    /\ ~AllSet(prim[1])
    /\ prim[1] # NewPrim

\* The run on the log with insertions reads the inserted line ln.
Insert(ln) ==
  /\ ~ended
  /\ nInserted < MaxInserted
  /\ parserN' = LogStep(parserN, ln, ellipse_sides)
  /\ nInserted' = nInserted + 1
  /\ midInserted' = (midInserted \/ PartlyRead(parserN))
  /\ UNCHANGED <<ellipse_sides, parser, ended, symbols, wr, wrBlocks, wrPins>>
  /\ UNCHANGED <<symbolsN, netVars, buildVars, geoVars, feed>>

\* A "key = value" line whose key is none of the recognized ones.
UnknownFieldLine == <<"color", " = ", "5">>

\* Inserted lines that are no header, field or end marker.
PlainLines == {PlainLine, UnknownFieldLine}

BracketLines == {InfoLine, DebugLine}

InsertPlain ==
  /\ \E ln \in PlainLines : Insert(ln)
  /\ UNCHANGED bracketInserted

InsertBracket ==
  /\ \E ln \in BracketLines : Insert(ln)
  /\ bracketInserted' = TRUE

\* The logs compared name one symbol (any number of times).
NoiseSymbol == "GND"

\* A primitive header of a log of at most MaxNoiseBlocks primitives.
ReadPrimHeaderN(kind) ==
  /\ wrBlocks < MaxNoiseBlocks
  /\ ReadPrimHeader(kind)

NoiseNext ==
  \/ ReadDebug
  \/ \E kind \in {"PrimRect", "PrimEllipse"} : ReadEndMarker(kind)
  \/ ReadSymbol(NoiseSymbol)
  \/ ReadPinHeader
  \/ \E f \in PinFields : ReadPinField(f)
  \/ \E kind \in PrimKinds : ReadPrimHeaderN(kind)
  \/ \E txt \in DOMAIN IntOf : ReadCoord(txt)
  \/ ReadInfo
  \/ ReadPlain
  \/ EndOfLog
  \/ InsertPlain
  \/ InsertBracket

(***************************************************************************)
(* Properties of parse_log.                                                *)
(***************************************************************************)
CurSegments(s) == s.pool[s.cur].segments

\* A primitive record with its four coordinates read.
Complete(prim) == prim # None /\ AllSet(prim[1])

\* A bounding box of non-zero width and height.
NonZeroExtent(d) == d.x1[1] # d.x2[1] /\ d.y1[1] # d.y2[1]

RectPending(s) ==
  s.cur # 0 /\ Complete(s.rect_state) /\ NonZeroExtent(s.rect_state[1])

EllipsePending(s) ==
  s.cur # 0 /\ Complete(s.ell_state) /\ NonZeroExtent(s.ell_state[1])

\* The boundary (x1,y1)-(x2,y1), (x2,y1)-(x2,y2), (x2,y2)-(x1,y2),
\* (x1,y2)-(x1,y1) of rectangle d.
Boundary(d) ==
  LET x1 == <<d.x1[1]>>
      y1 == <<d.y1[1]>>
      x2 == <<d.x2[1]>>
      y2 == <<d.y2[1]>>
  IN  << <<x1, y1, x2, y1>>, <<x2, y1, x2, y2>>, <<x2, y2, x1, y2>>, <<x1, y2, x1, y1>> >>

\* Each segment ends where the next one starts, the last one where the
\* first one starts.
ClosedRing(segs) ==
  /\ segs # <<>>
  /\ \A k \in 1..Len(segs) :
       LET nxt == segs[(k % Len(segs)) + 1]
       IN  segs[k][3] = nxt[1] /\ segs[k][4] = nxt[2]

\* The segments that the step appended to the symbol that was current.
Appended == SubSeq(CurSegments(parser)', Len(CurSegments(parser)) + 1, Len(CurSegments(parser)'))

\* The step is the reading of a symbol, pin or primitive header.
HeaderRead ==
  \/ \E name \in SymbolNames : ReadSymbol(name)
  \/ ReadPinHeader
  \/ \E kind \in PrimKinds : ReadPrimHeader(kind)

\* The segments of the symbol at position i of the pool after the step:
\* in the returned list once the log has ended.
SegmentsAfter(i) ==
  IF ended' THEN Range(symbols'[i].segments) ELSE Range(parser'.pool[i].segments)

\* C6: a rectangle or ellipse with its four coordinates read and a non-zero
\* extent is not dropped when the next thing seen is a primitive, pin or
\* symbol header or the end of the log: its segments are in the symbol.
C6_CompletePrimitiveKeptOnTransition ==
  [][ /\ (RectPending(parser) /\ (HeaderRead \/ EndOfLog))
        => Range(Boundary(parser.rect_state[1])) \subseteq SegmentsAfter(parser.cur)
      /\ (EllipsePending(parser) /\ ellipse_sides >= MinEllipseSides
            /\ (HeaderRead \/ EndOfLog))
        => Range(EllipseRing(parser.ell_state[1].x1[1], parser.ell_state[1].y1[1],
                             parser.ell_state[1].x2[1], parser.ell_state[1].y2[1],
                             ellipse_sides)) \subseteq SegmentsAfter(parser.cur)
    ]_vars

\* C7: when the end marker of the rectangle (resp. ellipse) in progress,
\* with its four coordinates set, is read, the primitive is flushed into
\* the current symbol and the parser is idle again.
C7_EndMarkerFlushes ==
  [][ /\ (RectPending(parser) /\ ReadEndMarker("PrimRect"))
        => /\ Appended = Boundary(parser.rect_state[1])
           /\ parser'.rect_state = None /\ parser'.seg_state = None
           /\ parser'.ell_state = None
      /\ (EllipsePending(parser) /\ ellipse_sides >= MinEllipseSides
            /\ ReadEndMarker("PrimEllipse"))
        => /\ Len(Appended) = ellipse_sides
           /\ parser'.rect_state = None /\ parser'.seg_state = None
           /\ parser'.ell_state = None
    ]_vars

\* C8: the flush of a rectangle whose four coordinates are set emits its
\* four boundary segments when x1 # x2 and y1 # y2, and no segment when
\* x1 = x2 or y1 = y2.
C8_RectFlushFourOrNone ==
  [][ (parser.cur # 0 /\ Complete(parser.rect_state) /\ ReadDebug)
        => Appended = IF NonZeroExtent(parser.rect_state[1])
                        THEN Boundary(parser.rect_state[1])
                        ELSE <<>>
    ]_vars

\* C9: the flush of a complete ellipse of non-zero width and height emits a
\* closed ring of exactly max(8, sides) segments.
C9_EllipseFlushRing ==
  [][ (EllipsePending(parser) /\ ReadDebug)
        => /\ Len(Appended) =
                IF ellipse_sides < MinEllipseSides THEN MinEllipseSides ELSE ellipse_sides
           /\ ClosedRing(Appended)
    ]_vars

\* The symbols, segments and pins of a returned list.
Outcome(syms) ==
  [i \in 1..Len(syms) |->
     [name |-> syms[i].name, segments |-> syms[i].segments, pins |-> syms[i].pins]]

\* C10 as stated: inserting lines that are no header, no recognized field
\* and no end marker, anywhere, yields the same symbols, segments and pins.
C10_InsertedLinesIgnored ==
  ended => Outcome(symbolsN) = Outcome(symbols)

\* C10 amended: inserting such lines yields the same symbols, segments and
\* pins provided none of the inserted lines starts with "["; the parser is
\* then in the same state after every line, and returns the same list.
C10_InsertedPlainLinesIgnored ==
  ~bracketInserted =>
    /\ parserN = parser
    /\ ended => Outcome(symbolsN) = Outcome(symbols)

\* Lines not starting with "[" were inserted between the coordinates of a
\* primitive, and the log has ended with that primitive's segments returned.
C10_Witness ==
  /\ ended
  /\ ~bracketInserted
  /\ midInserted
  /\ \E i \in 1..Len(symbolsN) : symbolsN[i].segments # <<>>

(***************************************************************************)
(* convert_log.py: geometry utilities.  Coordinates are integers, and a    *)
(* tolerance is an integer number of the same units (0 for none).          *)
(***************************************************************************)
\* round(n / d) of Python 3 for d > 0: to the nearest, ties to the even one.
Round(n, d) ==
  LET q == n \div d
      r == n % d
  IN  IF 2 * r < d THEN q
      ELSE IF 2 * r > d THEN q + 1
      ELSE IF q % 2 = 0 THEN q ELSE q + 1

\* float(round(v / eps) * eps) if eps > 0 else float(v)
snap(v, eps) == IF eps > 0 THEN Round(v, eps) * eps ELSE v

snap_pt(pt, eps) == <<snap(pt[1], eps), snap(pt[2], eps)>>

\* A closeness test that looks at the x coordinates only.
points_close_x(a, b, eps) == Abs(a[1] - b[1]) <= eps

points_close(a, b, eps) == Abs(a[1] - b[1]) <= eps /\ Abs(a[2] - b[2]) <= eps

\* seg_len(s) ** 2: math.hypot(x2 - x1, y2 - y1) squared
seg_len_sq(s) == (s[3] - s[1]) * (s[3] - s[1]) + (s[4] - s[2]) * (s[4] - s[2])

\* The order of tuples of two numbers.
PtLeq(a, b) == a[1] < b[1] \/ (a[1] = b[1] /\ a[2] <= b[2])

\* A key that keeps the direction of the segment.
seg_key_directed(s) == << <<s[1], s[2]>>, <<s[3], s[4]>> >>

\* tuple(sorted((a, b))); round(x, 6) leaves an integer as it is.
seg_key(s) ==
  LET a == <<s[1], s[2]>>
      b == <<s[3], s[4]>>
  IN  IF PtLeq(a, b) THEN <<a, b>> ELSE <<b, a>>

\* The loop of preprocess_segments: snap, drop the segments shorter than
\* min_len.
RECURSIVE SnapFromRawLen(_, _, _, _)
\* The loop with the length test made on the segment as given, not snapped.
SnapFromRawLen(segs, i, eps, min_len) ==
  IF i > Len(segs) THEN <<>>
  ELSE LET a == snap_pt(<<segs[i][1], segs[i][2]>>, eps)
           b == snap_pt(<<segs[i][3], segs[i][4]>>, eps)
           s == <<a[1], a[2], b[1], b[2]>>
       IN  IF min_len > 0 /\ seg_len_sq(segs[i]) < min_len * min_len
             THEN SnapFromRawLen(segs, i + 1, eps, min_len)
             ELSE <<s>> \o SnapFromRawLen(segs, i + 1, eps, min_len)

RECURSIVE SnapFrom(_, _, _, _)
SnapFrom(segs, i, eps, min_len) ==
  IF i > Len(segs) THEN <<>>
  ELSE LET a == snap_pt(<<segs[i][1], segs[i][2]>>, eps)
           b == snap_pt(<<segs[i][3], segs[i][4]>>, eps)
           s == <<a[1], a[2], b[1], b[2]>>
       IN  IF min_len > 0 /\ seg_len_sq(s) < min_len * min_len
             THEN SnapFrom(segs, i + 1, eps, min_len)
             ELSE <<s>> \o SnapFrom(segs, i + 1, eps, min_len)

preprocess_segments(segs, eps, min_len) ==
  LET out == SnapFrom(segs, 1, eps, min_len)
  IN  dedup(out, [j \in 1..Len(out) |-> seg_key(out[j])])

\* The test with "at least half" in place of "more than half".
poly_suspicious_half(pts) ==
  LET unique == {pts[j] : j \in 1..Len(pts)}
  IN  IF Len(pts) < 2 THEN TRUE
      ELSE IF Cardinality(unique) < 2 THEN TRUE
      ELSE 2 * (Len(pts) - Cardinality(unique)) >= Len(pts)

\* poly_suspicious: 1.0 - len(unique) / len(pts) > 0.5 is
\* 2 * (len(pts) - len(unique)) > len(pts).
poly_suspicious(pts) ==
  LET unique == {pts[j] : j \in 1..Len(pts)}
  IN  IF Len(pts) < 2 THEN TRUE
      ELSE IF Cardinality(unique) < 2 THEN TRUE
      ELSE 2 * (Len(pts) - Cardinality(unique)) > Len(pts)

\* The mapping with the y axis pointing down.
angle_from_vec_ydown(vx, vy, eps2) ==
  LET wx == IF 2 * Abs(vx) <= eps2 THEN 0 ELSE vx
      wy == IF 2 * Abs(vy) <= eps2 THEN 0 ELSE vy
  IN  IF wx = 0 /\ wy = 0 THEN None
      ELSE IF wy = 0 THEN Some(IF wx > 0 THEN 0 ELSE 180)
      ELSE IF wx = 0 THEN Some(IF wy > 0 THEN 270 ELSE 90)
      ELSE IF Abs(wx) >= Abs(wy) THEN Some(IF wx > 0 THEN 0 ELSE 180)
      ELSE Some(IF wy > 0 THEN 270 ELSE 90)

\* angle_from_vec(vx, vy, eps) with eps = eps2 / 2, and eps = 1e-6 for
\* eps2 = 0: no integer but 0 is within 1e-6 of 0.
angle_from_vec(vx, vy, eps2) ==
  LET wx == IF 2 * Abs(vx) <= eps2 THEN 0 ELSE vx
      wy == IF 2 * Abs(vy) <= eps2 THEN 0 ELSE vy
  IN  IF wx = 0 /\ wy = 0 THEN None
      ELSE IF wy = 0 THEN Some(IF wx > 0 THEN 0 ELSE 180)
      ELSE IF wx = 0 THEN Some(IF wy > 0 THEN 90 ELSE 270)
      ELSE IF Abs(wx) >= Abs(wy) THEN Some(IF wx > 0 THEN 0 ELSE 180)
      ELSE Some(IF wy > 0 THEN 90 ELSE 270)

\* The loop of infer_angle_from_segs; best_len_sq is None for best_len = -1.
RECURSIVE InferFrom(_, _, _, _, _, _)
InferFrom(start_xy, segs, eps, i, best, best_len_sq) ==
  IF i > Len(segs) THEN best
  ELSE LET a == <<segs[i][1], segs[i][2]>>
           b == <<segs[i][3], segs[i][4]>>
           touch == points_close(a, start_xy, eps) \/ points_close(b, start_xy, eps)
           far == IF points_close(a, start_xy, eps) THEN b ELSE a
           vx == far[1] - start_xy[1]
           vy == far[2] - start_xy[2]
           ang == angle_from_vec(vx, vy, eps)
           L_sq == vx * vx + vy * vy
       IN  IF ~touch \/ ang = None
             THEN InferFrom(start_xy, segs, eps, i + 1, best, best_len_sq)
           ELSE IF best_len_sq = None \/ L_sq > best_len_sq[1]
             THEN InferFrom(start_xy, segs, eps, i + 1, ang, Some(L_sq))
             ELSE InferFrom(start_xy, segs, eps, i + 1, best, best_len_sq)

\* infer_angle_from_segs: angle_from_vec gets eps = max(1e-6, 0.5 * eps)
infer_angle_from_segs(start_xy, segs, eps) ==
  InferFrom(start_xy, segs, eps, 1, None, None)

(***************************************************************************)
(* convert_log.py: stitch_all_tolerant, one step of its loops at a time.   *)
(* at is "outer" (while unused), "grow" (while grown), "scan" (while i <   *)
(* len(unused)) or "done" (return polys); i counts from 1.                 *)
(***************************************************************************)
RemoveAt(seq, i) == SubSeq(seq, 1, i - 1) \o SubSeq(seq, i + 1, Len(seq))

\* segs is the argument, which the function leaves as it is (unused = segs[:]).
StitchStart(segs, eps) ==
  [segs |-> segs, unused |-> segs, polys |-> <<>>, pts |-> <<>>, grown |-> FALSE, i |-> 1,
   eps |-> eps, at |-> IF segs = <<>> THEN "done" ELSE "outer"]

\* The loop with a scan pass that does not set grown: the chain is appended
\* after one pass over the pool.
StitchStepOnePass(s) ==
  CASE s.at = "outer" ->
         IF s.unused = <<>> THEN [s EXCEPT !.at = "done"]
         ELSE LET sg == s.unused[Len(s.unused)]
              IN  [s EXCEPT !.unused = SubSeq(@, 1, Len(@) - 1),
                            !.pts = << <<sg[1], sg[2]>>, <<sg[3], sg[4]>> >>,
                            !.grown = TRUE,
                            !.at = "grow"]
    [] s.at = "grow" ->
         IF s.grown
           THEN [s EXCEPT !.grown = FALSE, !.i = 1, !.at = "scan"]
           ELSE [s EXCEPT !.polys = Append(@, s.pts), !.at = "outer"]
    [] s.at = "scan" ->
         IF s.i > Len(s.unused) THEN [s EXCEPT !.at = "grow"]
         ELSE LET sg == s.unused[s.i]
                  a == <<sg[1], sg[2]>>
                  b == <<sg[3], sg[4]>>
                  last == s.pts[Len(s.pts)]
                  first == s.pts[1]
                  rest == RemoveAt(s.unused, s.i)
              IN  IF points_close(a, last, s.eps)
                    THEN [s EXCEPT !.pts = Append(@, b), !.unused = rest]
                  ELSE IF points_close(b, last, s.eps)
                    THEN [s EXCEPT !.pts = Append(@, a), !.unused = rest]
                  ELSE IF points_close(a, first, s.eps)
                    THEN [s EXCEPT !.pts = <<b>> \o @, !.unused = rest]
                  ELSE IF points_close(b, first, s.eps)
                    THEN [s EXCEPT !.pts = <<a>> \o @, !.unused = rest]
                  ELSE [s EXCEPT !.i = @ + 1]
    [] OTHER -> s

StitchStep(s) ==
  CASE s.at = "outer" ->
         IF s.unused = <<>> THEN [s EXCEPT !.at = "done"]
         ELSE LET sg == s.unused[Len(s.unused)]
              IN  [s EXCEPT !.unused = SubSeq(@, 1, Len(@) - 1),
                            !.pts = << <<sg[1], sg[2]>>, <<sg[3], sg[4]>> >>,
                            !.grown = TRUE,
                            !.at = "grow"]
    [] s.at = "grow" ->
         IF s.grown
           THEN [s EXCEPT !.grown = FALSE, !.i = 1, !.at = "scan"]
           ELSE [s EXCEPT !.polys = Append(@, s.pts), !.at = "outer"]
    [] s.at = "scan" ->
         IF s.i > Len(s.unused) THEN [s EXCEPT !.at = "grow"]
         ELSE LET sg == s.unused[s.i]
                  a == <<sg[1], sg[2]>>
                  b == <<sg[3], sg[4]>>
                  last == s.pts[Len(s.pts)]
                  first == s.pts[1]
                  rest == RemoveAt(s.unused, s.i)
              IN  IF points_close(a, last, s.eps)
                    THEN [s EXCEPT !.pts = Append(@, b), !.unused = rest, !.grown = TRUE]
                  ELSE IF points_close(b, last, s.eps)
                    THEN [s EXCEPT !.pts = Append(@, a), !.unused = rest, !.grown = TRUE]
                  ELSE IF points_close(a, first, s.eps)
                    THEN [s EXCEPT !.pts = <<b>> \o @, !.unused = rest, !.grown = TRUE]
                  ELSE IF points_close(b, first, s.eps)
                    THEN [s EXCEPT !.pts = <<a>> \o @, !.unused = rest, !.grown = TRUE]
                  ELSE [s EXCEPT !.i = @ + 1]
    [] OTHER -> s

RECURSIVE StitchRun(_)
StitchRun(s) == IF s.at = "done" THEN s.polys ELSE StitchRun(StitchStep(s))

stitch_all_tolerant(segs, eps) == StitchRun(StitchStart(segs, eps))

(***************************************************************************)
(* convert_log.py: build_symbol, with scale = 1.  kw holds the symbol      *)
(* and the keyword arguments; the pins are processed one at a time.        *)
(***************************************************************************)
\* The texts float() accepts, among those the logs of the model carry: the
\* decimal integers of FloatRange.
FloatRange == -20..20

IsFloat(txt) == \E v \in FloatRange : ToString(v) = txt

\* float(txt)
FloatOf(txt) == CHOOSE v \in FloatRange : ToString(v) = txt

\* raw.isdigit()
IsDigit(txt) == \E v \in 0..20 : ToString(v) = txt

\* TX: mirror (and scale by 1)
TX(kw, x, y) ==
  <<IF kw.mirror_x THEN -x ELSE x, IF kw.mirror_y THEN -y ELSE y>>

\* The angle transform with the two mirrors exchanged.
TA_exchanged(kw, a) ==
  IF a = None THEN 0
  ELSE LET a1 == IF kw.mirror_x THEN (-a[1]) % 360 ELSE a[1]
       IN  IF kw.mirror_y THEN (180 - a1) % 360 ELSE a1

\* TA: transform angle; a is None or Some(angle)
TA(kw, a) ==
  IF a = None THEN 0
  ELSE LET a1 == IF kw.mirror_x THEN (180 - a[1]) % 360 ELSE a[1]
       IN  IF kw.mirror_y THEN (-a1) % 360 ELSE a1

\* A segment of parse_log with integer coordinates, as four numbers.
SegNum(s) == <<s[1][1], s[2][1], s[3][1], s[4][1]>>

\* draw_raw_segments: one 2-point polyline per segment
RawPolys(kw, segs) ==
  [j \in 1..Len(segs) |->
     <<TX(kw, segs[j][1], segs[j][2]), TX(kw, segs[j][3], segs[j][4])>>]

\* The polylines drawn from the stitched chains, auto-closed when the ends
\* are within close_eps = join_eps.
StitchedPolys(kw, polys) ==
  [j \in 1..Len(polys) |->
     LET pts == polys[j]
         pts1 == IF points_close(pts[1], pts[Len(pts)], kw.join_eps)
                   THEN Append(pts, pts[1]) ELSE pts
     IN  [k \in 1..Len(pts1) |-> TX(kw, pts1[k][1], pts1[k][2])]]

\* The outline with mode 'auto' handled as mode 'on'.
OutlineNoFallback(kw, segs) ==
  IF segs = <<>> THEN <<>>
  ELSE IF kw.stitch_mode = "off" THEN RawPolys(kw, segs)
  ELSE StitchedPolys(kw, stitch_all_tolerant(segs, kw.join_eps))

\* The outline (convert_log.py 354-368)
Outline(kw, segs) ==
  IF segs = <<>> THEN <<>>
  ELSE IF kw.stitch_mode = "off" THEN RawPolys(kw, segs)
  ELSE LET polys == stitch_all_tolerant(segs, kw.join_eps)
           suspicious == \E j \in 1..Len(polys) : poly_suspicious(polys[j])
       IN  IF kw.stitch_mode = "auto" /\ suspicious
             THEN RawPolys(kw, segs)
             ELSE StitchedPolys(kw, polys)

\* build_symbol before its first pin.
BuildStart(kw) ==
  LET segs == preprocess_segments(
                [j \in 1..Len(kw.sym.segments) |-> SegNum(kw.sym.segments[j])],
                kw.join_eps, 0)
  IN  [at |-> "pins", segs |-> segs, polylines |-> Outline(kw, segs),
       k |-> 1, auto |-> 1, pins |-> <<>>]

BuildIdle ==
  [at |-> "idle", segs |-> <<>>, polylines |-> <<>>, k |-> 1, auto |-> 1, pins |-> <<>>]

\* The texts that float() is applied to for pin p (convert_log.py 386-389)
FloatArgs(p) ==
  { GetOr(p, "hotptX", Some(p["startX"]))[1], GetOr(p, "hotptY", Some(p["startY"]))[1],
    p["startX"], p["startY"] }

\* The angle the pin is emitted with, and the angle before mirroring
\* (convert_log.py 386-408); the pin's four values are numbers.
PinAngles(kw, segs, p) ==
  LET hx == FloatOf(GetOr(p, "hotptX", Some(p["startX"]))[1])
      hy == FloatOf(GetOr(p, "hotptY", Some(p["startY"]))[1])
      sx == FloatOf(p["startX"])
      sy == FloatOf(p["startY"])
      sx_s == snap(sx, kw.join_eps)
      sy_s == snap(sy, kw.join_eps)
      ang_into == angle_from_vec(sx - hx, sy - hy, kw.join_eps)
      ang_guess == infer_angle_from_segs(<<sx_s, sy_s>>, segs, kw.join_eps)
      resolved == IF ang_into = None
                    THEN (IF ang_guess # None THEN ang_guess ELSE Some(0))
                    ELSE ang_into
  IN  [at |-> TX(kw, snap(hx, kw.join_eps), snap(hy, kw.join_eps)),
       resolved |-> resolved[1], a |-> TA(kw, resolved)]

\* One iteration of "for p in sym['pins']" (convert_log.py 373-414), and
\* the return when the pins are exhausted.
BuildStep(kw, b) ==
  IF b.k > Len(kw.sym.pins) THEN [b EXCEPT !.at = "done"]
  ELSE LET p == kw.sym.pins[b.k]
       IN  IF "startX" \notin DOMAIN p \/ "startY" \notin DOMAIN p
             THEN [b EXCEPT !.k = @ + 1]
           ELSE LET raw == IF "name" \in DOMAIN p THEN p["name"] ELSE ""
                    digit == raw # "" /\ IsDigit(raw)
                    number == IF digit THEN raw ELSE ToString(b.auto)
                    name == IF digit \/ raw = "" THEN "~" ELSE raw
                    auto1 == IF digit THEN b.auto ELSE b.auto + 1
                IN  IF \E txt \in FloatArgs(p) : ~IsFloat(txt)
                      THEN [b EXCEPT !.at = "raised", !.auto = auto1]
                      ELSE LET r == PinAngles(kw, b.segs, p)
                           IN  [b EXCEPT
                                  !.k = @ + 1,
                                  !.auto = auto1,
                                  !.pins = Append(@, [at |-> r.at, a |-> r.a,
                                                     resolved |-> r.resolved,
                                                     name |-> name, number |-> number,
                                                     of |-> b.k])]

(***************************************************************************)
(* The calls of the geometry utilities that are not under way.             *)
(***************************************************************************)
CapIdle == [at |-> "idle"]

HdrIdle == [at |-> "idle"]

PreIdle == [at |-> "idle"]

StitchIdle == [at |-> "idle"]

SuspIdle == [at |-> "idle"]

GeoInit ==
  cap = CapIdle /\ hdr = HdrIdle /\ pre = PreIdle /\ stitch = StitchIdle /\ susp = SuspIdle

(***************************************************************************)
(* Calls of build_symbol.                                                  *)
(***************************************************************************)
ArgsIdle ==
  [sym |-> NewSymbol("GND"), join_eps |-> 1, stitch_mode |-> "auto",
   mirror_x |-> FALSE, mirror_y |-> FALSE]

BuildInit == args = ArgsIdle /\ build = BuildIdle

\* build_symbol up to its loop over the pins (convert_log.py 316-370)
BuildBegin ==
  /\ build.at = "start"
  /\ build' = BuildStart(args)
  /\ UNCHANGED <<args, netVars, logVars, geoVars>>

\* One iteration of the loop over the pins
BuildPin ==
  /\ build.at = "pins"
  /\ build.k <= Len(args.sym.pins)
  /\ build' = BuildStep(args, build)
  /\ UNCHANGED <<args, netVars, logVars, geoVars>>

\* The loop over the pins is over: build_symbol returns
BuildReturn ==
  /\ build.at = "pins"
  /\ build.k > Len(args.sym.pins)
  /\ build' = BuildStep(args, build)
  /\ UNCHANGED <<args, netVars, logVars, geoVars>>

(***************************************************************************)
(* convert_log.py: main.  parse_log reads a log of one symbol with pins    *)
(* and lines, then build_symbol is called on a symbol of the list.         *)
(***************************************************************************)
PipePinOrder == <<"startX", "startY", "hotptX", "hotptY", "isUpPointing">>

PipePinTexts == <<{"0", "5", "abc"}, {"0"}, {"0"}, {"0", "10"}, {"true"}>>

\* The keyword arguments main passes: the defaults, and the mirrors.
PipeArgs ==
  [join_eps : {1}, stitch_mode : {"auto"}, mirror_x : BOOLEAN, mirror_y : {FALSE}]

\* The writer emits the fields of a pin after its header, in the order of
\* PipePinOrder, each at most once.
ReadPinAttr(i, txt) ==
  /\ parser.cur # 0
  /\ parser.seg_state = None
  /\ LET pins == parser.pool[parser.cur].pins
     IN  /\ pins # <<>>
         /\ \A j \in i..Len(PipePinOrder) : PipePinOrder[j] \notin DOMAIN pins[Len(pins)]
  /\ txt \in PipePinTexts[i]
  /\ Read(FieldLine(PipePinOrder[i], txt))
  /\ UNCHANGED <<wr, wrBlocks, wrPins>>

\* main calls build_symbol on symbol k of the list parse_log returned
CallBuild(a) ==
  /\ ended
  /\ build.at = "idle"
  /\ \E k \in 1..Len(symbols) :
       args' = [sym |-> symbols[k], join_eps |-> a.join_eps, stitch_mode |-> a.stitch_mode,
                mirror_x |-> a.mirror_x, mirror_y |-> a.mirror_y]
  /\ build' = [build EXCEPT !.at = "start"]
  /\ UNCHANGED <<netVars, logVars, geoVars>>

PipeNext ==
  \/ ReadSymbol(NoiseSymbol)
  \/ ReadPinHeader
  \/ \E i \in 1..Len(PipePinOrder) : \E txt \in PipePinTexts[i] : ReadPinAttr(i, txt)
  \/ ReadPrimHeaderN("PrimLine")
  \/ \E txt \in DOMAIN IntOf : ReadCoord(txt)
  \/ EndOfLog
  \/ \E a \in PipeArgs : CallBuild(a)
  \/ BuildBegin
  \/ BuildPin
  \/ BuildReturn

\* C11: the log pipeline never aborts on malformed input: for every log,
\* parse_log followed by build_symbol on a parsed symbol does not raise,
\* also when a recognized pin field carries a non-numeric value.
C11_BuildNeverRaises == build.at # "raised"

(***************************************************************************)
(* convert_log.py: parse_log over logs whose normalName headers carry any  *)
(* text as the symbol name.  hdr.names is the list of the distinct header  *)
(* values read so far, in the order of their first mention.                *)
(***************************************************************************)
MaxHdrLines == 4

\* The values of the headers: a plain name, a name of two words, a name
\* that starts with a character outside [A-Za-z0-9_.-].
HeaderValues == {<<"GND">>, <<"VCC">>, <<"GND", " ", "2">>, <<"+", "5V">>}

HeaderLine(h) == <<"normalName", " = ">> \o h

HdrFields == {<<"startX", "0">>, <<"startX", "5">>}

HdrStart == [at |-> "reading", st |-> LogStart, names |-> <<>>, n |-> 0]

HdrMentioned(names, h) == \E i \in 1..Len(names) : names[i] = h

\* parse_log reads line ln.
HdrRead(ln) ==
  /\ hdr.n < MaxHdrLines
  /\ hdr' = [hdr EXCEPT !.st = LogStep(@, ln, DefaultEllipseSides), !.n = @ + 1]
  /\ UNCHANGED <<netVars, logVars, buildVars, cap, pre, stitch, susp>>

HdrReadHeader(h) ==
  /\ hdr.at = "reading"
  /\ hdr.n < MaxHdrLines
  /\ hdr' = [hdr EXCEPT !.st = LogStep(@, HeaderLine(h), DefaultEllipseSides),
                        !.names = IF HdrMentioned(@, h) THEN @ ELSE Append(@, h),
                        !.n = @ + 1]
  /\ UNCHANGED <<netVars, logVars, buildVars, cap, pre, stitch, susp>>

HdrReadPinHeader ==
  /\ hdr.at = "reading"
  /\ HdrRead(PinHeaderLine)

HdrReadField(f) ==
  /\ hdr.at = "reading"
  /\ HdrRead(FieldLine(f[1], f[2]))

\* The lines are exhausted: build list and return.
HdrEnd ==
  /\ hdr.at = "reading"
  /\ hdr' = [at |-> "done", st |-> hdr.st, names |-> hdr.names, n |-> hdr.n,
             symbols |-> LogFinish(hdr.st)]
  /\ UNCHANGED <<netVars, logVars, buildVars, cap, pre, stitch, susp>>

HdrNext ==
  \/ \E h \in HeaderValues : HdrReadHeader(h)
  \/ HdrReadPinHeader
  \/ \E f \in HdrFields : HdrReadField(f)
  \/ HdrEnd

HdrInit ==
  /\ NetInit /\ LogInit /\ ellipse_sides = DefaultEllipseSides /\ BuildInit
  /\ cap = CapIdle /\ hdr = HdrStart /\ pre = PreIdle /\ stitch = StitchIdle
  /\ susp = SuspIdle

HdrSpec == HdrInit /\ [][HdrNext]_vars

\* C12: parse_log returns exactly one symbol per distinct symbol name
\* mentioned in a normalName header, in the order of first mention: the names
\* of the returned symbols are the distinct header values, in that order.
C12_OneSymbolPerHeaderName ==
  hdr.at = "done" =>
    [i \in 1..Len(hdr.symbols) |-> <<hdr.symbols[i].name>>] = hdr.names

(***************************************************************************)
(* convert_dsn.py: make_safe_name and the name scan of parse_capsym_log.   *)
(* A text is the sequence of its characters.                               *)
(***************************************************************************)
\* The characters of [A-Za-z0-9_.+\- ] that the texts of the model carry.
AllowedChars == {"A", "B", "U", "1", "_", ".", "+", "-", " "}

RECURSIVE LStrip(_, _)
LStrip(txt, chars) ==
  IF txt # <<>> /\ Head(txt) \in chars THEN LStrip(Tail(txt), chars) ELSE txt

RECURSIVE RStrip(_, _)
RStrip(txt, chars) ==
  IF txt # <<>> /\ txt[Len(txt)] \in chars
    THEN RStrip(SubSeq(txt, 1, Len(txt) - 1), chars)
    ELSE txt

\* txt.strip(), txt.strip(c)
Strip(txt, chars) == RStrip(LStrip(txt, chars), chars)

\* txt.strip().strip('"').strip("'")
StripName(txt) == Strip(Strip(Strip(txt, {" "}), {"\""}), {"'"})

\* re.sub(r'[^A-Za-z0-9_.+\- ]+', "_", txt)
RECURSIVE SubForbidden(_, _)
SubForbidden(txt, inRun) ==
  IF txt = <<>> THEN <<>>
  ELSE IF Head(txt) \in AllowedChars
    THEN <<Head(txt)>> \o SubForbidden(Tail(txt), FALSE)
  ELSE IF inRun THEN SubForbidden(Tail(txt), TRUE)
  ELSE <<"_">> \o SubForbidden(Tail(txt), TRUE)

\* txt.replace(" ", "_")
ReplaceSpaces(txt) == [i \in 1..Len(txt) |-> IF txt[i] = " " THEN "_" ELSE txt[i]]

CapStems == {<<"U", "1">>, <<".">>}

\* hashlib.sha1(txt.encode("utf-8")).hexdigest()[:8]
Sha1Prefix(txt) ==
  CASE txt = <<>> -> "da39a3ee"
    [] txt = <<"U", "1">> -> "24b302f5"
    [] txt = <<".">> -> "3a52ce78"

make_safe_name(raw, fallback) ==
  LET raw0 == IF raw = None THEN <<>> ELSE raw[1]
      raw1 == StripName(raw0)
      safe == ReplaceSpaces(SubForbidden(raw1, FALSE))
      fb   == ReplaceSpaces(StripName(fallback))
      safe1 == IF safe # <<>> THEN safe
               ELSE IF fb # <<>> THEN fb
               ELSE <<"SYM_", Sha1Prefix(raw1)>>
      safe2 == LStrip(safe1, {"."})
  IN  IF safe2 # <<>> THEN safe2 ELSE <<"SYM_", Sha1Prefix(fallback)>>

MaxCapLines == 3

CapValues == {<<"A">>, <<"B">>, <<".">>, <<"A", " ", "(">>, <<>>}

CapLines ==
  {<<key, " = ">> \o v : key \in {"normalName", "name"}, v \in CapValues}
    \cup {PlainLine}

\* re.search(r'\bnormalName\s*=\s*(.+)', ln), re.search(r'\bname\s*=\s*(.+)', ln)
CapMatch(ln, key) == Len(ln) >= 2 /\ ln[1] = key /\ ln[2] = " = "

\* m.group(1).strip()
CapGroup(ln) == Strip(SubSeq(ln, 3, Len(ln)), {" "})

CapStart(lines, stem) ==
  [at |-> "scan", lines |-> lines, stem |-> stem, i |-> 1, raw_name |-> None]

\* for ln in lines: one line of the name scan.
CapScanLine ==
  /\ cap.at = "scan"
  /\ cap.i <= Len(cap.lines)
  /\ LET ln == cap.lines[cap.i]
     IN  cap' = IF CapMatch(ln, "normalName")
                  THEN [cap EXCEPT !.raw_name = Some(CapGroup(ln)), !.at = "break"]
                ELSE IF CapMatch(ln, "name")
                  THEN [cap EXCEPT !.raw_name = Some(CapGroup(ln)), !.i = @ + 1]
                ELSE [cap EXCEPT !.i = @ + 1]
  /\ UNCHANGED <<netVars, logVars, buildVars, hdr, pre, stitch, susp>>

\* name = make_safe_name(raw_name, path.stem)
CapName ==
  /\ \/ cap.at = "scan" /\ cap.i > Len(cap.lines)
     \/ cap.at = "break"
  /\ cap' = [at |-> "done", lines |-> cap.lines, stem |-> cap.stem, i |-> cap.i,
             raw_name |-> cap.raw_name,
             name |-> make_safe_name(cap.raw_name, cap.stem)]
  /\ UNCHANGED <<netVars, logVars, buildVars, hdr, pre, stitch, susp>>

CapNext == CapScanLine \/ CapName

CapLogs == UNION {[1..n -> CapLines] : n \in 0..MaxCapLines}

CapInit ==
  /\ NetInit /\ LogInit /\ ellipse_sides = DefaultEllipseSides /\ BuildInit
  /\ cap \in {CapStart(lines, stem) : lines \in CapLogs, stem \in CapStems}
  /\ hdr = HdrIdle /\ pre = PreIdle /\ stitch = StitchIdle /\ susp = SuspIdle

CapSpec == CapInit /\ [][CapNext]_vars

\* The values of the lines of the log that carry the field key, in order.
RECURSIVE FieldValues(_, _)
FieldValues(lines, key) ==
  IF lines = <<>> THEN <<>>
  ELSE (IF CapMatch(Head(lines), key) THEN <<CapGroup(Head(lines))>> ELSE <<>>)
         \o FieldValues(Tail(lines), key)

\* C13: parse_capsym_log takes the symbol identity from the value of the
\* first normalName line if there is one anywhere in the log, otherwise from
\* the value of the first name line, otherwise from the file stem.
C13_NameFromFirstField ==
  cap.at = "done" =>
    LET normals == FieldValues(cap.lines, "normalName")
        names   == FieldValues(cap.lines, "name")
        raw     == IF normals # <<>> THEN Some(normals[1])
                   ELSE IF names # <<>> THEN Some(names[1])
                   ELSE None
    IN  cap.name = make_safe_name(raw, cap.stem)

(***************************************************************************)
(* convert_log.py: preprocess_segments, called on a list of segments and   *)
(* then on its own result.                                                 *)
(***************************************************************************)
MaxPreSegs == 3

PrePoints == {<<0, 0>>, <<1, 0>>, <<3, 1>>}

PreSegs == {<<a[1], a[2], b[1], b[2]>> : a \in PrePoints, b \in PrePoints}

PreEps == {0, 1, 2}

PreMinLen == {0, 1, 2}

PreLists == UNION {[1..n -> PreSegs] : n \in 0..MaxPreSegs}

PreStart(segs, eps, min_len) ==
  [at |-> "start", segs |-> segs, eps |-> eps, min_len |-> min_len]

\* out1 = preprocess_segments(segs, eps, min_len); snapped is its local out
\* before the dedup.
PreFirst ==
  /\ pre.at = "start"
  /\ pre' = [at |-> "once", segs |-> pre.segs, eps |-> pre.eps,
             min_len |-> pre.min_len,
             snapped |-> SnapFrom(pre.segs, 1, pre.eps, pre.min_len),
             out1 |-> preprocess_segments(pre.segs, pre.eps, pre.min_len)]
  /\ UNCHANGED <<netVars, logVars, buildVars, cap, hdr, stitch, susp>>

\* out2 = preprocess_segments(out1, eps, min_len)
PreSecond ==
  /\ pre.at = "once"
  /\ pre' = [at |-> "twice", segs |-> pre.segs, eps |-> pre.eps,
             min_len |-> pre.min_len, snapped |-> pre.snapped, out1 |-> pre.out1,
             out2 |-> preprocess_segments(pre.out1, pre.eps, pre.min_len)]
  /\ UNCHANGED <<netVars, logVars, buildVars, cap, hdr, stitch, susp>>

PreNext == PreFirst \/ PreSecond

PreInit ==
  /\ NetInit /\ LogInit /\ ellipse_sides = DefaultEllipseSides /\ BuildInit
  /\ pre \in {PreStart(segs, eps, min_len) :
                segs \in PreLists, eps \in PreEps, min_len \in PreMinLen}
  /\ cap = CapIdle /\ hdr = HdrIdle /\ stitch = StitchIdle /\ susp = SuspIdle

PreSpec == PreInit /\ [][PreNext]_vars

\* The unordered pair of the endpoints of a segment.
EndPair(s) == {<<s[1], s[2]>>, <<s[3], s[4]>>}

\* The positions of seq whose segment has the endpoint pair of no earlier one.
FirstOfPair(seq) ==
  {i \in 1..Len(seq) : \A j \in 1..(i - 1) : EndPair(seq[j]) # EndPair(seq[i])}

\* The k-th smallest member of the set idx of numbers.
KthOf(idx, k) == CHOOSE i \in idx : Cardinality({j \in idx : j <= i}) = k

\* C14: preprocess_segments deduplicates direction-agnostically and keeps
\* first occurrences: no two segments of the output have the same unordered
\* pair of snapped endpoints, and the output is the list of the snapped
\* segments that are the first with their pair, with their own endpoint
\* order, in input order.
C14_DedupKeepsFirstOfEachPair ==
  pre.at \in {"once", "twice"} =>
    /\ \A i, j \in 1..Len(pre.out1) :
         i # j => EndPair(pre.out1[i]) # EndPair(pre.out1[j])
    /\ Len(pre.out1) = Cardinality(FirstOfPair(pre.snapped))
    /\ \A k \in 1..Len(pre.out1) :
         pre.out1[k] = pre.snapped[KthOf(FirstOfPair(pre.snapped), k)]

\* A segment and, later in the list, the same segment reversed: only the
\* first one survives.
C14_Witness ==
  /\ pre.at = "once"
  /\ \E i, j \in 1..Len(pre.snapped) :
       /\ i < j
       /\ pre.snapped[i] # pre.snapped[j]
       /\ EndPair(pre.snapped[i]) = EndPair(pre.snapped[j])
  /\ Len(pre.out1) >= 2
  /\ Len(pre.out1) < Len(pre.snapped)

\* C15: preprocess_segments is idempotent: called on its own result with the
\* same eps and min_len, it returns the same set of segments.
C15_PreprocessIdempotent ==
  pre.at = "twice" => Range(pre.out2) = Range(pre.out1)

\* A call that snapped an endpoint, dropped a short segment and a duplicate,
\* and kept a segment.
C15_Witness ==
  /\ pre.at = "twice"
  /\ pre.eps > 0 /\ pre.min_len > 0
  /\ Len(pre.snapped) < Len(pre.segs)
  /\ Len(pre.out1) < Len(pre.snapped)
  /\ pre.out1 # <<>>
  /\ \E i \in 1..Len(pre.out1) : pre.out1[i] \notin Range(pre.segs)

(***************************************************************************)
(* convert_log.py: a call of stitch_all_tolerant, one loop step at a time. *)
(***************************************************************************)
MaxStitchSegs == 3

StitchPoints == {<<0, 0>>, <<1, 0>>, <<0, 5>>}

StitchSegs == {<<a[1], a[2], b[1], b[2]>> : a \in StitchPoints, b \in StitchPoints}

StitchEps == {0, 1}

StitchLists == UNION {[1..n -> StitchSegs] : n \in 0..MaxStitchSegs}

\* while unused: pts = pop_any(), and return polys
StitchOuter ==
  /\ stitch.at = "outer"
  /\ stitch' = StitchStep(stitch)
  /\ UNCHANGED <<netVars, logVars, buildVars, cap, hdr, pre, susp>>

\* while grown: ..., and polys.append(pts)
StitchGrow ==
  /\ stitch.at = "grow"
  /\ stitch' = StitchStep(stitch)
  /\ UNCHANGED <<netVars, logVars, buildVars, cap, hdr, pre, susp>>

\* while i < len(unused): ...
StitchScan ==
  /\ stitch.at = "scan"
  /\ stitch' = StitchStep(stitch)
  /\ UNCHANGED <<netVars, logVars, buildVars, cap, hdr, pre, susp>>

StitchNext == StitchOuter \/ StitchGrow \/ StitchScan

StitchInit ==
  /\ NetInit /\ LogInit /\ ellipse_sides = DefaultEllipseSides /\ BuildInit
  /\ stitch \in {StitchStart(segs, eps) : segs \in StitchLists, eps \in StitchEps}
  /\ cap = CapIdle /\ hdr = HdrIdle /\ pre = PreIdle /\ susp = SuspIdle

StitchSpec == StitchInit /\ [][StitchNext]_vars

\* The pairs of consecutive points of the polylines, in one list.
RECURSIVE PairsOf(_)
PairsOf(polys) ==
  IF polys = <<>> THEN <<>>
  ELSE [k \in 1..(Len(Head(polys)) - 1) |-> <<Head(polys)[k], Head(polys)[k + 1]>>]
         \o PairsOf(Tail(polys))

\* Each coordinate of p is within eps of that of q.
Within(p, q, eps) == Abs(p[1] - q[1]) <= eps /\ Abs(p[2] - q[2]) <= eps

\* The two endpoints of segment sg are within eps of the two points of pr.
SegOfPair(sg, pr, eps) ==
  \/ Within(<<sg[1], sg[2]>>, pr[1], eps) /\ Within(<<sg[3], sg[4]>>, pr[2], eps)
  \/ Within(<<sg[3], sg[4]>>, pr[1], eps) /\ Within(<<sg[1], sg[2]>>, pr[2], eps)

\* The one-to-one maps of 1..n onto itself.
Bijections(n) == {f \in [1..n -> 1..n] : \A i, j \in 1..n : f[i] = f[j] => i = j}

\* C16: stitch_all_tolerant drops and invents nothing: when it returns, no
\* segment is left unused, the polylines have as many pairs of consecutive
\* points as there are input segments, and the pairs correspond one to one
\* to input segments whose endpoints are within eps of the pair's points.
C16_StitchDropsAndInventsNothing ==
  stitch.at = "done" =>
    LET pairs == PairsOf(stitch.polys)
    IN  /\ stitch.unused = <<>>
        /\ Len(pairs) = Len(stitch.segs)
        /\ \E f \in Bijections(Len(pairs)) :
             \A k \in 1..Len(pairs) : SegOfPair(stitch.segs[f[k]], pairs[k], stitch.eps)

\* A returned result with a chain of two or more segments, joined at points
\* that are close but not equal, and a second polyline.
C16_Witness ==
  /\ stitch.at = "done"
  /\ stitch.eps > 0
  /\ Len(stitch.polys) >= 2
  /\ \E k \in 1..Len(stitch.polys) :
       /\ Len(stitch.polys[k]) >= 3
       /\ \E sg \in Range(stitch.segs) :
            \A j \in 1..(Len(stitch.polys[k]) - 1) :
              EndPair(sg) # {stitch.polys[k][j], stitch.polys[k][j + 1]}

(***************************************************************************)
(* convert_log.py: a call of poly_suspicious.                              *)
(***************************************************************************)
MaxSuspPts == 5

SuspPoints == {<<0, 0>>, <<1, 0>>, <<0, 5>>}

SuspLists == UNION {[1..n -> SuspPoints] : n \in 0..MaxSuspPts}

SuspStart(pts) == [at |-> "start", pts |-> pts]

\* poly_suspicious returns True.
SuspTrue ==
  /\ susp.at = "start"
  /\ poly_suspicious(susp.pts)
  /\ susp' = [at |-> "done", pts |-> susp.pts, result |-> TRUE]
  /\ UNCHANGED <<netVars, logVars, buildVars, cap, hdr, pre, stitch>>

\* poly_suspicious returns False.
SuspFalse ==
  /\ susp.at = "start"
  /\ ~poly_suspicious(susp.pts)
  /\ susp' = [at |-> "done", pts |-> susp.pts, result |-> FALSE]
  /\ UNCHANGED <<netVars, logVars, buildVars, cap, hdr, pre, stitch>>

SuspNext == SuspTrue \/ SuspFalse

SuspInit ==
  /\ NetInit /\ LogInit /\ ellipse_sides = DefaultEllipseSides /\ BuildInit
  /\ susp \in {SuspStart(pts) : pts \in SuspLists}
  /\ cap = CapIdle /\ hdr = HdrIdle /\ pre = PreIdle /\ stitch = StitchIdle

SuspSpec == SuspInit /\ [][SuspNext]_vars

\* The positions of pts whose point is equal to an earlier point of pts.
Repeats(pts) == {i \in 1..Len(pts) : \E j \in 1..(i - 1) : pts[j] = pts[i]}

\* C17: poly_suspicious(pts) is true exactly when pts has fewer than 2
\* distinct points or when the points that repeat an earlier point are more
\* than half of the points.
C17_SuspiciousIffFewOrRepeated ==
  susp.at = "done" =>
    (susp.result <=>
       \/ Cardinality(Range(susp.pts)) < 2
       \/ 2 * Cardinality(Repeats(susp.pts)) > Len(susp.pts))

\* A chain with two or more distinct points that is flagged for its repeats.
C17_Witness ==
  /\ susp.at = "done"
  /\ susp.result
  /\ Cardinality(Range(susp.pts)) >= 2
  /\ 2 * Cardinality(Repeats(susp.pts)) > Len(susp.pts)

(***************************************************************************)
(* convert_log.py: build_symbol called on a symbol with one pin whose      *)
(* fields are numbers.                                                     *)
(***************************************************************************)
AngleCoords == {-5, -2, -1, 0, 1, 2, 5}

AngleHots == {<<0, 0>>, <<1, -1>>}

AngleEps == {0, 1, 2, 4}

AngleSegments ==
  {<<>>,
   <<<<Num(0), Num(0), Num(0), Num(5)>>>>,
   <<<<Num(1), Num(0), Num(4), Num(0)>>, <<Num(1), Num(0), Num(-3), Num(0)>>>>}

AnglePin(s, h) ==
  ("startX" :> ToString(s[1])) @@ ("startY" :> ToString(s[2])) @@
  ("hotptX" :> ToString(h[1])) @@ ("hotptY" :> ToString(h[2]))

AngleArgs ==
  {[sym |-> [NewSymbol("GND") EXCEPT !.pins = <<AnglePin(s, h)>>, !.segments = segs],
    join_eps |-> e, stitch_mode |-> "auto", mirror_x |-> mx, mirror_y |-> my] :
     s \in AngleCoords \X AngleCoords, h \in AngleHots, e \in AngleEps,
     segs \in AngleSegments, mx \in BOOLEAN, my \in BOOLEAN}

AngleInit ==
  /\ NetInit /\ LogInit /\ ellipse_sides = DefaultEllipseSides /\ GeoInit
  /\ args \in AngleArgs
  /\ build = [BuildIdle EXCEPT !.at = "start"]

AngleNext == BuildBegin \/ BuildPin \/ BuildReturn

AngleSpec == AngleInit /\ [][AngleNext]_vars

\* The vector start - hot of the pin that pin q was emitted for, and the
\* half tolerance pin_eps doubled (0 when pin_eps is 1e-6).
PinVec(q) ==
  LET p == args.sym.pins[q.of]
  IN  <<FloatOf(p["startX"]) - FloatOf(p["hotptX"]),
        FloatOf(p["startY"]) - FloatOf(p["hotptY"])>>

\* A component is small when it is at most pin_eps = join_eps / 2.
Small(v) == 2 * Abs(v) <= args.join_eps

\* C18: for a pin whose vector v = start - hot is non-zero after the small
\* components are snapped to zero, the resolved angle is 0, 180, 90, 270 for
\* v along +x, -x, +y, -y, and the cardinal direction of the strictly larger
\* component when v is diagonal; hot (0,0) with start (5,0), (0,5), (-5,0),
\* (0,-5) gives 0, 90, 180, 270.
C18_AngleOfVector ==
  \A k \in 1..Len(build.pins) :
    LET q  == build.pins[k]
        p  == args.sym.pins[q.of]
        vx == IF Small(PinVec(q)[1]) THEN 0 ELSE PinVec(q)[1]
        vy == IF Small(PinVec(q)[2]) THEN 0 ELSE PinVec(q)[2]
    IN  /\ (vy = 0 /\ vx > 0) => q.resolved = 0
        /\ (vy = 0 /\ vx < 0) => q.resolved = 180
        /\ (vx = 0 /\ vy > 0) => q.resolved = 90
        /\ (vx = 0 /\ vy < 0) => q.resolved = 270
        /\ (vy # 0 /\ Abs(vx) > Abs(vy)) => q.resolved = (IF vx > 0 THEN 0 ELSE 180)
        /\ (vx # 0 /\ Abs(vy) > Abs(vx)) => q.resolved = (IF vy > 0 THEN 90 ELSE 270)
        /\ p = AnglePin(<<5, 0>>, <<0, 0>>) => q.resolved = 0
        /\ p = AnglePin(<<0, 5>>, <<0, 0>>) => q.resolved = 90
        /\ p = AnglePin(<<-5, 0>>, <<0, 0>>) => q.resolved = 180
        /\ p = AnglePin(<<0, -5>>, <<0, 0>>) => q.resolved = 270

\* A pin emitted for a diagonal vector that points mostly down, with a
\* tolerance in force that leaves both components as they are.
C18_Witness ==
  /\ build.at = "done"
  /\ \E k \in 1..Len(build.pins) :
       /\ ~Small(PinVec(build.pins[k])[1])
       /\ Abs(PinVec(build.pins[k])[2]) > Abs(PinVec(build.pins[k])[1])
       /\ PinVec(build.pins[k])[2] < 0
       /\ build.pins[k].resolved = 270
       /\ args.join_eps > 0

\* C19: for a diagonal vector whose components have equal absolute value,
\* angle_from_vec resolves the tie toward the vertical axis: 90 when vy > 0
\* and 270 when vy < 0.
C19_TieResolvesVertically ==
  \A k \in 1..Len(build.pins) :
    LET q  == build.pins[k]
        vx == PinVec(q)[1]
        vy == PinVec(q)[2]
    IN  (Abs(vx) = Abs(vy) /\ ~Small(vx)) =>
          q.resolved = (IF vy > 0 THEN 90 ELSE 270)

\* The pin record has flag set to the text true.
FlagSet(p, flag) == Get(p, flag) = Some("true")

\* C20: explicit direction flags have the highest priority in the emitted
\* orientation: a pin whose record has isRightPointing, isLeftPointing,
\* isUpPointing or isDownPointing set to true is emitted (before mirroring)
\* at 0, 180, 90 or 270, whatever its start and hot points are.
C20_FlagsDecideAngle ==
  \A k \in 1..Len(build.pins) :
    LET q == build.pins[k]
        p == args.sym.pins[q.of]
    IN  /\ FlagSet(p, "isRightPointing") => q.resolved = 0
        /\ (~FlagSet(p, "isRightPointing") /\ FlagSet(p, "isLeftPointing"))
             => q.resolved = 180
        /\ (~FlagSet(p, "isRightPointing") /\ ~FlagSet(p, "isLeftPointing")
              /\ FlagSet(p, "isUpPointing")) => q.resolved = 90
        /\ (~FlagSet(p, "isRightPointing") /\ ~FlagSet(p, "isLeftPointing")
              /\ ~FlagSet(p, "isUpPointing") /\ FlagSet(p, "isDownPointing"))
             => q.resolved = 270

\* The snapped start point of the pin that pin q was emitted for.
PinStart(q) ==
  LET p == args.sym.pins[q.of]
  IN  <<snap(FloatOf(p["startX"]), args.join_eps), snap(FloatOf(p["startY"]), args.join_eps)>>

\* The directions away from point st that segment sg has when one of its
\* endpoints is within eps of st: that of the other endpoint seen from st,
\* and that of the other endpoint seen from the touching endpoint.
TouchDirs(sg, st, eps) ==
  LET a == <<sg[1], sg[2]>>
      b == <<sg[3], sg[4]>>
      from(e, f) == {angle_from_vec(f[1] - st[1], f[2] - st[2], eps),
                     angle_from_vec(f[1] - e[1], f[2] - e[2], eps)}
  IN  ((IF Within(a, st, eps) THEN from(a, b) ELSE {})
         \cup (IF Within(b, st, eps) THEN from(b, a) ELSE {})) \ {None}

\* C21: when the start - hot vector of a pin is degenerate, the angle is the
\* cardinal direction, away from the start point, of the longest preprocessed
\* segment that has an endpoint within join_eps of the snapped start point,
\* and 0 when no segment touches or gives a direction.
C21_AngleOfLongestTouchingSegment ==
  \A k \in 1..Len(build.pins) :
    LET q  == build.pins[k]
        st == PinStart(q)
        touching == {j \in 1..Len(build.segs) :
                       TouchDirs(build.segs[j], st, args.join_eps) # {}}
        longest == {j \in touching :
                      \A i \in touching :
                        seg_len_sq(build.segs[i]) <= seg_len_sq(build.segs[j])}
    IN  (Small(PinVec(q)[1]) /\ Small(PinVec(q)[2])) =>
          IF touching = {} THEN q.resolved = 0
          ELSE \E j \in longest :
                 Some(q.resolved) \in TouchDirs(build.segs[j], st, args.join_eps)

\* C22: mirroring maps the resolved angle a to (180 - a) mod 360 for the
\* horizontal mirror, to (-a) mod 360 for the vertical mirror and to
\* (a + 180) mod 360 for both; the result is one of 0, 90, 180, 270, the
\* transform is an involution, and 90 under the horizontal mirror is 90, 0
\* under the horizontal mirror is 180, 90 under the vertical mirror is 270.
C22_MirroredAngle ==
  \A k \in 1..Len(build.pins) :
    LET r == build.pins[k].resolved
        a == build.pins[k].a
        mx == args.mirror_x
        my == args.mirror_y
    IN  /\ (~mx /\ ~my) => a = r
        /\ (mx /\ ~my) => a = (180 - r) % 360
        /\ (~mx /\ my) => a = (-r) % 360
        /\ (mx /\ my) => a = (r + 180) % 360
        /\ a \in {0, 90, 180, 270}
        /\ TA(args, Some(a)) = r
        /\ (mx /\ ~my /\ r = 90) => a = 90
        /\ (mx /\ ~my /\ r = 0) => a = 180
        /\ (~mx /\ my /\ r = 90) => a = 270

\* A pin resolved at 90 and emitted at 270 under both mirrors.
C22_Witness ==
  /\ build.at = "done"
  /\ args.mirror_x /\ args.mirror_y
  /\ \E k \in 1..Len(build.pins) :
       build.pins[k].resolved = 90 /\ build.pins[k].a = 270

(***************************************************************************)
(* convert_log.py: parse_log on a log given as a whole (feed), then        *)
(* build_symbol on a symbol of the result.                                 *)
(***************************************************************************)
\* for ln in lines: parse_log reads the next line of the log.
FeedLine ==
  /\ ~ended
  /\ feed.i <= Len(feed.lines)
  /\ parser' = LogStep(parser, feed.lines[feed.i], ellipse_sides)
  /\ parserN' = LogStep(parserN, feed.lines[feed.i], ellipse_sides)
  /\ feed' = [feed EXCEPT !.i = @ + 1]
  /\ UNCHANGED <<ellipse_sides, ended, symbols, wr, wrBlocks, wrPins>>
  /\ UNCHANGED <<symbolsN, nInserted, bracketInserted, midInserted>>
  /\ UNCHANGED <<netVars, buildVars, geoVars>>

\* The lines are exhausted: build list and return.
FeedEnd ==
  /\ feed.i > Len(feed.lines)
  /\ EndOfLog

\* A log of one symbol with one pin block and one line block.
RunLog(name, sx, hy, y2) ==
  <<SymbolLine(name), PinHeaderLine,
    FieldLine("startX", sx), FieldLine("startY", "0"),
    FieldLine("hotptX", "0"), FieldLine("hotptY", hy),
    PrimHeaderLine("PrimLine"),
    FieldLine("x1", "0"), FieldLine("y1", "0"),
    FieldLine("x2", "0"), FieldLine("y2", y2)>>

RunLogs ==
  {RunLog(name, sx, hy, y2) :
     name \in SymbolNames, sx \in {"0", "5"}, hy \in {"0", "10"}, y2 \in {"5", "10"}}

RunInit ==
  /\ NetInit /\ LogLocalsInit /\ ellipse_sides = DefaultEllipseSides
  /\ feed \in {[lines |-> lines, i |-> 1] : lines \in RunLogs}
  /\ BuildInit /\ GeoInit

RunNext ==
  \/ FeedLine
  \/ FeedEnd
  \/ \E a \in PipeArgs : CallBuild(a)
  \/ BuildBegin
  \/ BuildPin
  \/ BuildReturn

RunSpec == RunInit /\ [][RunNext]_vars

\* C23: the log with a header naming GND, one pin block (startX = 0,
\* startY = 0, hotptX = 0, hotptY = 10) and one line block (x1 = 0, y1 = 0,
\* x2 = 0, y2 = 10) parses to exactly one symbol named GND with the one
\* segment (0,0)-(0,10) and one pin, and build_symbol orients that pin at 270.
C23_EndToEnd ==
  feed.lines = RunLog("GND", "0", "10", "10") =>
    /\ ended =>
         /\ Len(symbols) = 1
         /\ symbols[1].name = "GND"
         /\ symbols[1].segments = <<<<Num(0), Num(0), Num(0), Num(10)>>>>
         /\ Len(symbols[1].pins) = 1
    /\ build.at = "done" =>
         /\ Len(build.pins) = 1
         /\ build.pins[1].resolved = 270
         /\ ~args.mirror_y => build.pins[1].a = 270

\* build_symbol has returned for the symbol of that log.
C23_Witness ==
  /\ feed.lines = RunLog("GND", "0", "10", "10")
  /\ build.at = "done"
  /\ build.segs = <<<<0, 0, 0, 10>>>>
  /\ build.pins[1].at = <<0, 10>>

\* A line, a rectangle or an ellipse is being filled.
PrimInProgress(st) ==
  st.seg_state # None \/ st.rect_state # None \/ st.ell_state # None

\* C24: the primitive in progress and the pin in progress are mutually
\* exclusive in parse_log: while a line, a rectangle or an ellipse is in
\* progress, no line read modifies a pin record.
C24_NoPinFieldInsidePrimitive ==
  [][PrimInProgress(parser) =>
       \A i \in 1..Len(parser.pool) :
         \A j \in 1..Len(parser.pool[i].pins) :
           parser'.pool[i].pins[j] = parser.pool[i].pins[j]]_vars

(***************************************************************************)
(* convert_log.py: parse_log on every short log of one symbol that starts  *)
(* a line primitive; the lines after the two headers are free.             *)
(***************************************************************************)
MaxFeedLines == 5

FeedAlphabet ==
  {FieldLine("x1", "0"), FieldLine("y1", "0"), FieldLine("x2", "0"),
   FieldLine("y2", "10"), PrimHeaderLine("PrimLine"), InfoLine}

FeedLogs ==
  {<<SymbolLine("GND"), PrimHeaderLine("PrimLine")>> \o tail :
     tail \in UNION {[1..n -> FeedAlphabet] : n \in 0..MaxFeedLines}}

FeedInit ==
  /\ NetInit /\ LogLocalsInit /\ ellipse_sides = DefaultEllipseSides
  /\ feed \in {[lines |-> lines, i |-> 1] : lines \in FeedLogs}
  /\ BuildInit /\ GeoInit

FeedNext == FeedLine \/ FeedEnd

FeedSpec == FeedInit /\ [][FeedNext]_vars

\* The number of segments the symbols of the pool hold.
RECURSIVE SegmentCount(_)
SegmentCount(pool) ==
  IF pool = <<>> THEN 0 ELSE Len(Head(pool).segments) + SegmentCount(Tail(pool))

\* The line primitive in progress has every field but the one named key.
LacksOnly(d, key) ==
  /\ \A k \in CoordKeys \ {key} : d[k] # None
  /\ d[key] = None

\* C25: a line primitive is flushed when its fourth distinct coordinate field
\* is read: exactly one segment (x1,y1,x2,y2) is appended to the current
\* symbol and the parser returns to idle, so that later coordinate lines add
\* nothing until the next header; a line primitive with fewer than four
\* fields when the next header arrives or the stream ends appends no segment.
C25_LineFlushedAtFourthField ==
  [][LET ln == feed.lines[feed.i]
         d  == parser.seg_state[1]
         fourth == parser.seg_state # None /\ MatchCoord(ln) /\ LacksOnly(d, ln[1])
     IN  /\ (feed'.i = feed.i + 1 /\ fourth) =>
              /\ parser'.pool[parser.cur].segments =
                   Append(parser.pool[parser.cur].segments,
                          <<Num(IF ln[1] = "x1" THEN IntOf[ln[3]] ELSE d.x1[1]),
                            Num(IF ln[1] = "y1" THEN IntOf[ln[3]] ELSE d.y1[1]),
                            Num(IF ln[1] = "x2" THEN IntOf[ln[3]] ELSE d.x2[1]),
                            Num(IF ln[1] = "y2" THEN IntOf[ln[3]] ELSE d.y2[1])>>)
              /\ SegmentCount(parser'.pool) = SegmentCount(parser.pool) + 1
              /\ ~PrimInProgress(parser')
         /\ (feed'.i = feed.i + 1 /\ ~fourth) =>
              SegmentCount(parser'.pool) = SegmentCount(parser.pool)
         /\ (ended' /\ ~ended) =>
              \A k \in 1..Len(parser.pool) :
                Len(symbols'[k].segments) <= Len(parser.pool[k].segments)]_vars

\* The line was flushed by its fourth field, a later coordinate line was
\* read, and the symbol holds the one segment.
C25_Witness ==
  /\ feed.i = 8
  /\ \A k \in 3..7 : MatchCoord(feed.lines[k])
  /\ {feed.lines[k][1] : k \in 3..6} = CoordKeys
  /\ parser.pool[1].segments = <<<<Num(0), Num(0), Num(0), Num(10)>>>>
  /\ ~PrimInProgress(parser)

(***************************************************************************)
(* extractor.py: class DSU under any sequence of find and union calls on   *)
(* the keys of Coords.                                                     *)
(***************************************************************************)
\* dsu.find(x)
DsuFind(x) ==
  /\ dsu' = DSU_find(dsu, x).d
  /\ UNCHANGED <<phase, xmlPins, xmlWires, pin_pts, nets_cl, nets>>
  /\ UNCHANGED <<logVars, buildVars, geoVars>>

\* dsu.union(a, b)
DsuUnion(a, b) ==
  /\ dsu' = DSU_union(dsu, a, b)
  /\ UNCHANGED <<phase, xmlPins, xmlWires, pin_pts, nets_cl, nets>>
  /\ UNCHANGED <<logVars, buildVars, geoVars>>

DsuNext ==
  \/ \E x \in Coords : DsuFind(x)
  \/ \E a, b \in Coords : DsuUnion(a, b)

DsuInit ==
  /\ NetInit
  /\ LogInit /\ ellipse_sides = DefaultEllipseSides
  /\ BuildInit
  /\ GeoInit

DsuSpec == DsuInit /\ [][DsuNext]_vars

\* The key that at most n steps along the parents lead to from x, stopping
\* at a key that is its own parent.
RECURSIVE Ancestor(_, _, _)
Ancestor(p, x, n) ==
  IF n = 0 \/ p[x] = x THEN x ELSE Ancestor(p, p[x], n - 1)

RootOf(p, x) == Ancestor(p, x, Cardinality(DOMAIN p))

\* Every parent is a key, and from every key the parents lead to a key that
\* is its own parent in fewer steps than there are keys.
IsForest(p) ==
  /\ \A x \in DOMAIN p : p[x] \in DOMAIN p
  /\ \A x \in DOMAIN p :
       LET r == Ancestor(p, x, Cardinality(DOMAIN p) - 1) IN p[r] = r

\* The keys on the way from x to its root, x included, the root excluded.
RECURSIVE PathFrom(_, _, _)
PathFrom(p, x, n) ==
  IF n = 0 \/ p[x] = x THEN {} ELSE {x} \cup PathFrom(p, p[x], n - 1)

PathOf(p, x) == PathFrom(p, x, Cardinality(DOMAIN p))

SetOfKey(p, x) == {y \in DOMAIN p : RootOf(p, y) = RootOf(p, x)}

SetsOf(p) == {SetOfKey(p, x) : x \in DOMAIN p}

\* C30: after any sequence of union and find calls the parent map is a
\* forest; find(x) returns the root of x, leaves x and every key of its
\* former path pointing directly to the root and changes no set; union(a, b)
\* merges exactly the sets of a and b.
C30_ForestAndCompression ==
  [][/\ IsForest(dsu'.p)
     /\ \A x \in Coords :
          dsu' = DSU_find(dsu, x).d =>
            LET p0 == DSU_setdefault(dsu, x).p
            IN  /\ DSU_find(dsu, x).r = RootOf(p0, x)
                /\ dsu'.p[x] = RootOf(p0, x)
                /\ \A y \in PathOf(p0, x) : dsu'.p[y] = RootOf(p0, x)
                /\ dsu'.p[RootOf(p0, x)] = RootOf(p0, x)
                /\ SetsOf(dsu'.p) = SetsOf(p0)
     /\ \A a, b \in Coords :
          dsu' = DSU_union(dsu, a, b) =>
            LET p0 == DSU_setdefault(DSU_setdefault(dsu, a), b).p
                sa == SetOfKey(p0, a)
                sb == SetOfKey(p0, b)
            IN  SetsOf(dsu'.p) = (SetsOf(p0) \ {sa, sb}) \cup {sa \cup sb}]_vars

\* Four keys in one set in the insertion order of a chain of unions, every
\* key pointing directly to the root: a find has compressed the chain.
C30_Witness ==
  /\ dsu.keys = <<<<1, 1>>, <<0, 0>>, <<2, 2>>, <<5, 5>>>>
  /\ \A x \in DOMAIN dsu.p : dsu.p[x] = <<5, 5>>

\* The loops of stitch_all_tolerant run on: no step waits for anything.
StitchFairSpec == StitchSpec /\ WF_vars(StitchNext)

\* Point q is within eps of an endpoint of segment sg.
TouchesEnd(sg, q, eps) ==
  Within(<<sg[1], sg[2]>>, q, eps) \/ Within(<<sg[3], sg[4]>>, q, eps)

\* C26: at the step that appends a polyline to the output no segment still
\* unused has an endpoint within eps of the polyline's first or last point,
\* and every call comes to its end with no segment left unused.
C26_ChainFinalizedWhenMaximal ==
  /\ [][Len(stitch'.polys) > Len(stitch.polys) =>
          /\ stitch'.polys = Append(stitch.polys, stitch.pts)
          /\ stitch'.unused = stitch.unused
          /\ \A k \in 1..Len(stitch.unused) :
               /\ ~TouchesEnd(stitch.unused[k], stitch.pts[1], stitch.eps)
               /\ ~TouchesEnd(stitch.unused[k], stitch.pts[Len(stitch.pts)], stitch.eps)]_vars
  /\ <>(stitch.at = "done" /\ stitch.unused = <<>>)

\* A chain of two segments has just been appended while a segment that
\* touches neither of its ends is still unused.
C26_Witness ==
  /\ stitch.at = "outer"
  /\ stitch.polys # <<>>
  /\ Len(stitch.polys[Len(stitch.polys)]) >= 3
  /\ stitch.unused # <<>>

(***************************************************************************)
(* convert_log.py: build_symbol called on a symbol with one pin and up to  *)
(* MaxOutlineSegs segments, in each stitch mode.                           *)
(***************************************************************************)
MaxOutlineSegs == 2

OutlinePoints == {<<0, 0>>, <<1, 0>>, <<0, 4>>, <<1, 4>>}

OutlineSegs ==
  {<<Num(a[1]), Num(a[2]), Num(b[1]), Num(b[2])>> : a \in OutlinePoints, b \in OutlinePoints}

OutlineLists == UNION {[1..n -> OutlineSegs] : n \in 0..MaxOutlineSegs}

OutlineEps == {0, 1, 2}

StitchModes == {"auto", "on", "off"}

OutlineArgs ==
  {[sym |-> [NewSymbol("GND") EXCEPT !.pins = <<AnglePin(<<0, 0>>, <<1, -1>>)>>,
                                      !.segments = segs],
    join_eps |-> e, stitch_mode |-> sm, mirror_x |-> mx, mirror_y |-> FALSE] :
     segs \in OutlineLists, e \in OutlineEps, sm \in StitchModes, mx \in BOOLEAN}

OutlineInit ==
  /\ NetInit /\ LogInit /\ ellipse_sides = DefaultEllipseSides /\ GeoInit
  /\ args \in OutlineArgs
  /\ build = [BuildIdle EXCEPT !.at = "start"]

OutlineNext == BuildBegin \/ BuildPin \/ BuildReturn

OutlineSpec == OutlineInit /\ [][OutlineNext]_vars

\* The outline has been drawn.
Drawn == build.at \in {"pins", "raised", "done"}

\* The chains the stitcher makes of the preprocessed segments.
Chains == stitch_all_tolerant(build.segs, args.join_eps)

SomeSuspicious == \E j \in 1..Len(Chains) : poly_suspicious(Chains[j])

\* One 2-point polyline per preprocessed segment.
RawOutline ==
  [j \in 1..Len(build.segs) |->
     <<TX(args, build.segs[j][1], build.segs[j][2]),
       TX(args, build.segs[j][3], build.segs[j][4])>>]

\* One polyline per chain, with the points of the chain.
ChainOutline ==
  [j \in 1..Len(Chains) |->
     [k \in 1..Len(Chains[j]) |-> TX(args, Chains[j][k][1], Chains[j][k][2])]]

\* One polyline per chain, with the points of the chain and, when its ends
\* are within join_eps of each other, its first point once more.
ClosedChainOutline ==
  [j \in 1..Len(Chains) |->
     LET pts == Chains[j]
         cl  == IF Within(pts[1], pts[Len(pts)], args.join_eps)
                  THEN Append(pts, pts[1]) ELSE pts
     IN  [k \in 1..Len(cl) |-> TX(args, cl[k][1], cl[k][2])]]

\* C27 as stated: mode 'off' draws one 2-point polyline per preprocessed
\* segment, mode 'auto' draws the same when a chain is suspicious and exactly
\* the chains otherwise, mode 'on' draws exactly the chains.
C27_StitchPolicyExactChains ==
  Drawn =>
    /\ args.stitch_mode = "off" => build.polylines = RawOutline
    /\ args.stitch_mode = "auto" =>
         build.polylines = (IF SomeSuspicious THEN RawOutline ELSE ChainOutline)
    /\ args.stitch_mode = "on" => build.polylines = ChainOutline

\* C27 (amended): the same policy, where a drawn chain whose ends are within
\* join_eps of each other is closed by its first point; the outline is the
\* raw one or the stitched one as a whole.
C27_StitchPolicy ==
  Drawn =>
    /\ args.stitch_mode = "off" => build.polylines = RawOutline
    /\ args.stitch_mode = "auto" =>
         build.polylines = (IF SomeSuspicious THEN RawOutline ELSE ClosedChainOutline)
    /\ args.stitch_mode = "on" => build.polylines = ClosedChainOutline
    /\ build.polylines \in {RawOutline, ClosedChainOutline}

\* Mode 'auto' has fallen back to the raw outline of two segments, one of
\* which the stitcher had joined to nothing or to the other.
C27_Witness ==
  /\ build.at = "done"
  /\ args.stitch_mode = "auto"
  /\ SomeSuspicious
  /\ Len(build.segs) = 2
  /\ build.polylines = RawOutline
  /\ build.polylines # ClosedChainOutline

\* C28: no segment whose endpoints coincide after snapping is passed to the
\* stitcher or drawn.
C28_NoDegenerateSegment ==
  Drawn =>
    /\ \A j \in 1..Len(build.segs) :
         <<build.segs[j][1], build.segs[j][2]>> # <<build.segs[j][3], build.segs[j][4]>>
    /\ \A j \in 1..Len(build.polylines) :
         \E k \in 1..(Len(build.polylines[j]) - 1) :
           build.polylines[j][k] # build.polylines[j][k + 1]

\* C29: with join_eps > 0 the chains join preprocessed segments only at an
\* endpoint both have: the pairs of consecutive points of the chains are,
\* one to one, the endpoint pairs of the preprocessed segments (none of
\* which has its two endpoints at one point).
C29_JoinsOnlyAtEqualPoints ==
  (/\ Drawn /\ args.join_eps > 0 /\ args.stitch_mode # "off"
   /\ \A j \in 1..Len(build.segs) :
        <<build.segs[j][1], build.segs[j][2]>> # <<build.segs[j][3], build.segs[j][4]>>) =>
    LET pairs == PairsOf(Chains)
    IN  /\ Len(pairs) = Len(build.segs)
        /\ \E f \in Bijections(Len(pairs)) :
             \A k \in 1..Len(pairs) : SegOfPair(build.segs[f[k]], pairs[k], 0)

(***************************************************************************)
(* Specifications.                                                         *)
(***************************************************************************)
\* extractor.py: parse_components_and_nets
Init ==
  /\ NetInit
  /\ LogInit /\ ellipse_sides = DefaultEllipseSides
  /\ BuildInit
  /\ GeoInit

Next == NetNext

Spec == Init /\ [][Next]_vars

\* convert_log.py: parse_log
LogSpecInit == LogInit /\ NetInit /\ BuildInit /\ GeoInit

LogSpec == LogSpecInit /\ [][LogNext]_vars

\* convert_log.py: parse_log on a log and on the log with lines inserted
NoiseInit == LogSpecInit /\ ellipse_sides = MinEllipseSides

NoiseSpec == NoiseInit /\ [][NoiseNext]_vars

\* convert_log.py: main (parse_log, then build_symbol)
PipeInit == Init

PipeSpec == PipeInit /\ [][PipeNext]_vars

=============================================================================
